---- MODULE Spec2Model ----
(***************************************************************************)
(* Model of AnkiConnect.bulk_add_highlights (src/src/anki_connect.py):     *)
(* field-mapping resolution, per-record materialization, and the batch     *)
(* submission loop with its remote calls and progress callbacks; of the    *)
(* client's deck and note type operations with their caches; and of the    *)
(* annotation normalizer of src/src/anki_integration.py.                   *)
(*                                                                         *)
(* Text values are sequences of tokens: <<>> is the empty string, the      *)
(* token WS is one whitespace character, SEP is the "<br><br>" separator   *)
(* the code inserts, every other token is a run of visible characters.     *)
(* A Python dict is a function; a dict whose insertion order matters       *)
(* (the field mapping) is a sequence of [source, target] pairs.            *)
(***************************************************************************)
EXTENDS Integers, Sequences, FiniteSets, TLC

----------------------------------------------------------------------------
(* Bounds of the model *)

\* Longest input list enumerated record by record.
MaxShort == 2

\* Number of full batches a long input list may hold.
MaxFull == 1

(* Program constants *)

batch_size == 50

PreviewLen == 80

----------------------------------------------------------------------------
(* Text values *)

WS == " "

SEP == "<br><br>"

\* Python's None where the code can produce it for a field name.
None == "<None>"

Min(a, b) == IF a < b THEN a ELSE b

Range(s) == {s[k] : k \in 1..Len(s)}

\* Truth value of a field name: None and "" are falsy.
Truthy(name) == name \notin {None, ""}

LStrip(s) ==
  LET first == CHOOSE k \in 1..(Len(s) + 1) :
                 /\ \A j \in 1..(k - 1) : s[j] = WS
                 /\ (k = Len(s) + 1 \/ s[k] # WS)
  IN SubSeq(s, first, Len(s))

RStrip(s) ==
  LET last == CHOOSE k \in 0..Len(s) :
                /\ \A j \in (k + 1)..Len(s) : s[j] = WS
                /\ (k = 0 \/ s[k] # WS)
  IN SubSeq(s, 1, last)

\* str.strip()
Strip(s) == RStrip(LStrip(s))

\* s[:80]
Preview(s) == SubSeq(s, 1, Min(Len(s), PreviewLen))

\* dict.get(key, default)
Get(d, key, default) == IF key \in DOMAIN d THEN d[key] ELSE default

\* d[key] = value, which adds the key when the dict lacks it
Put(d, key, value) ==
  [x \in (DOMAIN d) \cup {key} |-> IF x = key THEN value ELSE d[x]]

\* x or y
Or(x, y) == IF x # <<>> THEN x ELSE y

----------------------------------------------------------------------------
(* Field-mapping resolution, lines 720-749 *)

\* pick_fallback: the first preferred name the schema has, else its first field
pick_fallback(preferred, af) ==
  LET hits == {k \in 1..Len(preferred) : preferred[k] \in Range(af)}
  IN IF hits # {}
       THEN preferred[CHOOSE k \in hits : \A j \in hits : k <= j]
       ELSE IF af # <<>> THEN af[1] ELSE None

\* FallbackCandidates that ends with the first field for every key
FallbackCandidates_FirstField(source, af) ==
  IF source = "highlight" THEN <<"Front", af[1]>>
  ELSE <<"Back", "Front", af[1]>>

\* The candidate list of a source key whose declared target the schema lacks
FallbackCandidates(source, af) ==
  IF source = "highlight" THEN <<"Front", af[1]>>
  ELSE IF source = "comment" THEN <<"Back", "Front", af[1]>>
  ELSE <<"Back", "Front", af[Len(af)]>>

\* One declared entry resolved against the schema (lines 732-743)
RemapEntry(entry, af) ==
  IF entry.target \in Range(af)
    THEN entry
    ELSE [source |-> entry.source,
          target |-> pick_fallback(FallbackCandidates(entry.source, af), af)]

Sources(m) == {m[k].source : k \in 1..Len(m)}

\* remapped_mapping.get(source)
MapGet(m, source) ==
  IF source \in Sources(m)
    THEN m[CHOOSE k \in 1..Len(m) : m[k].source = source].target
    ELSE None

RECURSIVE RemapDeclared(_, _)
RemapDeclared(fm, af) ==
  IF fm = <<>> THEN <<>>
  ELSE LET e == RemapEntry(fm[1], af)
           rest == RemapDeclared(Tail(fm), af)
       IN IF Truthy(e.target) THEN <<e>> \o rest ELSE rest

\* EnsureHighlight that forces highlight onto the last field
EnsureHighlight_LastField(m, af) ==
  IF "highlight" \in Sources(m) THEN m
  ELSE Append(m, [source |-> "highlight", target |-> af[Len(af)]])

\* Lines 745-747: highlight always has a target
EnsureHighlight(m, af) ==
  IF "highlight" \in Sources(m) THEN m
  ELSE Append(m, [source |-> "highlight",
                  target |-> pick_fallback(<<"Front", af[1]>>, af)])

\* EnsureComment without the forced placement of lines 748-749
EnsureComment_Unforced(m, af) == m

\* Lines 748-749: comment always has a target
EnsureComment(m, af) ==
  IF "comment" \in Sources(m) THEN m
  ELSE Append(m, [source |-> "comment",
                  target |-> pick_fallback(
                      <<"Back", "Front", af[Min(1, Len(af) - 1) + 1]>>, af)])

\* remapped_mapping for a non-empty field list (lines 730-749)
Resolve(fm, af) == EnsureComment(EnsureHighlight(RemapDeclared(fm, af), af), af)

----------------------------------------------------------------------------
(* Record materialization, lines 764-837 *)

\* Line 766: the highlight text, read under "highlight", else under "text"
base_highlight(hd) == Strip(Get(hd, "highlight", Get(hd, "text", <<>>)))

\* Line 767
base_comment(hd) == Strip(Get(hd, "comment", <<>>))

\* Line 768: the record has no textual content
NoContent(hd) == base_highlight(hd) = <<>> /\ base_comment(hd) = <<>>

\* Line 775
EmptyFields(af) == [f \in Range(af) |-> <<>>]

\* Lines 787 and 808: not any(str(val).strip() for val in fields.values())
AllBlank(fields) == \A f \in DOMAIN fields : Strip(fields[f]) = <<>>

\* Lines 778-784: one mapping entry written into the payload
WriteEntry(fields, entry, hd, af) ==
  LET value == Get(hd, entry.source, <<>>)
  IN IF entry.target \in Range(af) /\ value # <<>>
       THEN IF fields[entry.target] # <<>>
              THEN [fields EXCEPT ![entry.target] = @ \o <<SEP>> \o value]
              ELSE [fields EXCEPT ![entry.target] = value]
       ELSE fields

\* Lines 777-784: the mapping loop, in the mapping's insertion order
RECURSIVE MapFields(_, _, _, _)
MapFields(fields, rm, hd, af) ==
  IF rm = <<>> THEN fields
  ELSE MapFields(WriteEntry(fields, rm[1], hd, af), Tail(rm), hd, af)

\* Lines 786-789: forced placement of the base text
ForcePlacement(fields, rm, hd, af) ==
  IF AllBlank(fields)
    THEN LET hf == MapGet(rm, "highlight")
             fallback_field == IF Truthy(hf) THEN hf ELSE af[1]
         IN Put(fields, fallback_field, Or(base_highlight(hd), base_comment(hd)))
    ELSE fields

\* Lines 790-796: with no comment, the highlight is copied into the comment field
CopyGuard(fields, rm, hd, af) ==
  IF base_comment(hd) = <<>> /\ base_highlight(hd) # <<>>
    THEN LET cf == MapGet(rm, "comment")
             target_comment_field ==
               IF Truthy(cf) THEN cf
               ELSE IF "Back" \in Range(af) THEN "Back"
               ELSE pick_fallback(<<af[1]>>, af)
         IN IF Truthy(target_comment_field)
              THEN Put(fields, target_comment_field, base_highlight(hd))
              ELSE fields
    ELSE fields

\* Lines 798-805: front/back preference
FrontBack(fields, rm, front_content) ==
  LET hf == MapGet(rm, "highlight")
      cf == MapGet(rm, "comment")
  IN IF front_content = "highlight" /\ Truthy(hf)
       THEN LET highlight_val == Get(fields, hf, <<>>)
                comment_val == Get(fields, cf, Get(fields, "Back", <<>>))
                f1 == IF highlight_val # <<>>
                        THEN Put(fields, "Front", highlight_val) ELSE fields
            IN IF comment_val # <<>> THEN Put(f1, "Back", comment_val) ELSE f1
       ELSE fields

\* Lines 775-805: the payload of one record that has content
Payload(hd, rm, af, front_content) ==
  FrontBack(
    CopyGuard(
      ForcePlacement(MapFields(EmptyFields(af), rm, hd, af), rm, hd, af),
      rm, hd, af),
    rm, front_content)

\* Lines 829-837: the debug snapshot kept aligned with the note
Debug(hd, fields) ==
  [front |-> Get(fields, "Front", <<>>),
   back |-> Get(fields, "Back", <<>>),
   highlight |-> base_highlight(hd),
   comment |-> base_comment(hd),
   book |-> Or(Get(hd, "book_title", <<>>), Get(hd, "title", <<>>)),
   chapter |-> Get(hd, "chapter", <<>>),
   page |-> Get(hd, "page", <<>>)]

\* Materialize without the up-front drop of lines 768-773
Materialize_NoUpFrontDrop(hd, rm, af, front_content, allow_dup, n) ==
  LET fields == Payload(hd, rm, af, front_content)
  IN [dropped |-> AllBlank(fields),
      note |-> [fields |-> fields, allowDuplicate |-> allow_dup, src |-> n],
      debug |-> Debug(hd, fields)]

\* Materialize that also drops a record whose highlight is blank
Materialize_HighlightRequired(hd, rm, af, front_content, allow_dup, n) ==
  LET fields == Payload(hd, rm, af, front_content)
  IN [dropped |-> base_highlight(hd) = <<>> \/ AllBlank(fields),
      note |-> [fields |-> fields, allowDuplicate |-> allow_dup, src |-> n],
      debug |-> Debug(hd, fields)]

\* Lines 764-837 for the record at position n of the input: whether it is
\* dropped and counted as skipped-empty (lines 768 and 808), else its note
\* (lines 815-826) and debug snapshot. src is the position of the input
\* record, carried for the properties only; deck, model and tags pass through
\* unread and are left out.
Materialize(hd, rm, af, front_content, allow_dup, n) ==
  LET fields == Payload(hd, rm, af, front_content)
  IN [dropped |-> NoContent(hd) \/ AllBlank(fields),
      note |-> [fields |-> fields, allowDuplicate |-> allow_dup, src |-> n],
      debug |-> Debug(hd, fields)]

----------------------------------------------------------------------------
(* State *)

VARIABLES
  pc,                \* position in bulk_add_highlights
  highlights,        \* argument: the input records
  field_mapping,     \* argument: the declared mapping, in insertion order
  allow_duplicate,   \* argument
  front_content,     \* argument
  progress_callback, \* argument: whether a callback was passed
  model_fields,      \* remote side: the field list of the target schema
  available_fields, remapped_mapping,
  notes, note_debugs,
  skipped_empty, success_count, fail_count, errors, processed,
  i,                 \* the batch loop's index (0-based start of the batch)
  eligible_batch, eligible_debug,
  calls,             \* history: the remote calls made, in order
  reports,           \* history: the arguments of every progress callback
  mark,              \* history: the counters when the current batch began
  raised,            \* "" or the error raised to the caller
  cached_decks,      \* self._cached_decks: NoCache or the deck names fetched
  cached_note_types, \* self._cached_note_types: NoCache or the names fetched
  remote_decks,      \* remote side: the deck names of the collection
  remote_models,     \* remote side: the note type names of the collection
  remote_fields,     \* remote side: the field list of the Makhfouz note type
  cpc,               \* position in ensure_makhfouz_model, "idle" outside it
  models,            \* ensure_makhfouz_model's local, Unbound when never set
  existing_fields,   \* ensure_makhfouz_model's local: the fetched field list
  missing_fields,    \* the desired fields still to be added
  requests,          \* history: the remote requests of the client operations
  ops,               \* history: the client operations started, in order
  data,              \* _extract_highlights: the book's decoded metadata
  show_ref_pg,       \* self.base.show_ref_pg
  xpc,               \* position in _extract_highlights: "start" or "done"
  extracted,         \* the list _extract_highlights returned
  extract_raised     \* "" or the class of the error it raised

\* The variables of one bulk_add_highlights call
export == <<pc, highlights, field_mapping, allow_duplicate, front_content,
            progress_callback, model_fields, available_fields, remapped_mapping,
            notes, note_debugs, skipped_empty, success_count, fail_count, errors,
            processed, i, eligible_batch, eligible_debug, calls, reports, mark,
            raised>>

\* The variables of the deck and note type operations of the client
client == <<cached_decks, cached_note_types, remote_decks, remote_models,
            remote_fields, cpc, models, existing_fields, missing_fields,
            requests, ops>>

\* The variables of one _extract_highlights call
normalizer == <<data, show_ref_pg, xpc, extracted, extract_raised>>

vars == <<export, client, normalizer>>

inputs == <<highlights, field_mapping, allow_duplicate, front_content,
            progress_callback, model_fields>>

\* The message of the AnkiConnectError a failed remote call raises (lines 96-103)
TransportError == "Could not connect to Anki"

\* The message raised at line 728
NoFieldsError == "Selected note type has no fields."

----------------------------------------------------------------------------
(* Remote responses *)

\* Shapes of a per-record response vector; on a batch of one or two records
\* they give every vector there is.
Shapes == {"all", "none", "odd", "even"}

ShapeAt(shape, k) ==
  CASE shape = "all" -> TRUE
    [] shape = "none" -> FALSE
    [] shape = "odd" -> k % 2 = 1
    [] shape = "even" -> k % 2 = 0

\* canAddNotes: one boolean per note, aligned with the input order
EligibilityVectors(n) == {[k \in 1..n |-> ShapeAt(sh, k)] : sh \in Shapes}

\* addNotes: one slot per note, a note id or None
ResultVectors(n) ==
  {[k \in 1..n |-> IF ShapeAt(sh, k) THEN "id" ELSE None] : sh \in Shapes}

----------------------------------------------------------------------------
(* Lines 717-837: field fetch, mapping resolution and the record pre-pass *)

\* Lines 771-772 and 811-812: one callback per dropped record
DropReports(count, total, cb) ==
  IF cb THEN [k \in 1..count |-> [done |-> k, total |-> total, phase |-> "drop"]]
  ELSE <<>>

\* BatchAt that runs one record into the next batch
BatchAt_Overlapping(seq, start) ==
  SubSeq(seq, start + 1, Min(start + batch_size + 1, Len(seq)))

\* The batch that starts at index start (line 843)
BatchAt(seq, start) == SubSeq(seq, start + 1, Min(start + batch_size, Len(seq)))

batch == BatchAt(notes, i)

debug_batch == BatchAt(note_debugs, i)

\* Where the loop of line 842 stands once the notes list is n long and the
\* next batch starts at index start; line 847 sets eligible_batch = batch
LoopPc(start, n, allow_dup) ==
  IF start >= n THEN "fold" ELSE IF allow_dup THEN "submit" ELSE "check"

\* Line 718 raises: the remote call failed
FetchFails ==
  /\ pc = "start"
  /\ pc' = "done"
  /\ raised' = TransportError
  /\ calls' = Append(calls, [action |-> "modelFieldNames", notes |-> <<>>,
                             ok |-> FALSE, result |-> <<>>])
  /\ UNCHANGED <<normalizer, client, inputs, available_fields, remapped_mapping, notes, note_debugs,
                 skipped_empty, success_count, fail_count, errors, processed, i,
                 eligible_batch, eligible_debug, reports, mark>>

\* NoFields that raises only after the pre-pass has reported the first record
NoFields_AfterFirstRecord ==
  /\ pc = "start"
  /\ model_fields = <<>>
  /\ pc' = "done"
  /\ raised' = NoFieldsError
  /\ available_fields' = model_fields
  /\ processed' = Min(1, Len(highlights))
  /\ reports' = reports \o
                  DropReports(Min(1, Len(highlights)), Len(highlights),
                              progress_callback)
  /\ calls' = Append(calls, [action |-> "modelFieldNames", notes |-> <<>>,
                             ok |-> TRUE, result |-> model_fields])
  /\ UNCHANGED <<normalizer, client, inputs, remapped_mapping, notes, note_debugs,
                 skipped_empty, success_count, fail_count, errors, i,
                 eligible_batch, eligible_debug, mark>>

\* Lines 727-728: the field list is empty
NoFields ==
  /\ pc = "start"
  /\ model_fields = <<>>
  /\ pc' = "done"
  /\ raised' = NoFieldsError
  /\ available_fields' = model_fields
  /\ calls' = Append(calls, [action |-> "modelFieldNames", notes |-> <<>>,
                             ok |-> TRUE, result |-> model_fields])
  /\ UNCHANGED <<normalizer, client, inputs, remapped_mapping, notes, note_debugs,
                 skipped_empty, success_count, fail_count, errors, processed, i,
                 eligible_batch, eligible_debug, reports, mark>>

\* Lines 718-837 with a non-empty field list
Prepare ==
  /\ pc = "start"
  /\ model_fields # <<>>
  /\ LET af == model_fields
         rm == Resolve(field_mapping, af)
         made == [n \in 1..Len(highlights) |->
                    Materialize(highlights[n], rm, af, front_content,
                                allow_duplicate, n)]
         kept == SelectSeq(made, LAMBDA m : ~m.dropped)
         dropped == Len(made) - Len(kept)
         ns == [k \in 1..Len(kept) |-> kept[k].note]
         ds == [k \in 1..Len(kept) |-> kept[k].debug]
     IN /\ available_fields' = af
        /\ remapped_mapping' = rm
        /\ notes' = ns
        /\ note_debugs' = ds
        /\ skipped_empty' = dropped
        /\ processed' = dropped
        /\ reports' = reports \o
                        DropReports(dropped, Len(highlights), progress_callback)
        /\ pc' = LoopPc(0, Len(ns), allow_duplicate)
        /\ eligible_batch' = IF allow_duplicate THEN BatchAt(ns, 0) ELSE <<>>
        /\ eligible_debug' = IF allow_duplicate THEN BatchAt(ds, 0) ELSE <<>>
  /\ i' = 0
  /\ success_count' = 0
  /\ fail_count' = 0
  /\ errors' = <<>>
  /\ mark' = [fail |-> 0, errors |-> 0, success |-> 0]
  /\ calls' = Append(calls, [action |-> "modelFieldNames", notes |-> <<>>,
                             ok |-> TRUE, result |-> model_fields])
  /\ raised' = ""
  /\ UNCHANGED <<normalizer, client, inputs>>

----------------------------------------------------------------------------
(* Lines 839-907: the batch loop *)

\* Line 866: the diagnostic of a record the eligibility check rejected
DuplicateDiag(dbg, start) ==
  [kind |-> "Duplicate skipped",
   batch |-> (start \div batch_size) + 1,
   book |-> dbg.book, chapter |-> dbg.chapter, page |-> dbg.page,
   front |-> Preview(Or(dbg.front, dbg.highlight)),
   back |-> Preview(Or(dbg.back, dbg.comment))]

\* Line 893: the diagnostic of a null result slot
FailedDiag(dbg, start, j) ==
  [kind |-> "Failed to add note",
   batch |-> (start \div batch_size) + 1,
   idx |-> j,
   book |-> dbg.book, chapter |-> dbg.chapter, page |-> dbg.page,
   front |-> Preview(Or(dbg.front, dbg.highlight)),
   back |-> Preview(Or(dbg.back, dbg.comment))]

\* Line 897: str(e)
TransportDiag == [kind |-> "error", message |-> TransportError]

\* Line 906
SkippedDiag(count) == [kind |-> "Skipped empty", count |-> count]

\* Line 886: the debug entry of slot j, or {} past the end
EmptyDebug ==
  [front |-> <<>>, back |-> <<>>, highlight |-> <<>>, comment |-> <<>>,
   book |-> <<>>, chapter |-> <<>>, page |-> <<>>]

DebugAt(debugs, j) == IF j <= Len(debugs) THEN debugs[j] ELSE EmptyDebug

\* Positions of a vector that hold the value v, in order
Positions(vec, v) == SelectSeq([k \in 1..Len(vec) |-> k], LAMBDA k : vec[k] = v)

Pick(seq, positions) == [k \in 1..Len(positions) |-> seq[positions[k]]]

\* EndBatch without the callback of lines 876-877 and 900-901
EndBatch_NoCallback ==
  /\ processed' = processed + Len(batch)
  /\ reports' = reports
  /\ i' = i + batch_size
  /\ pc' = LoopPc(i + batch_size, Len(notes), allow_duplicate)
  /\ eligible_batch' = IF allow_duplicate
                         THEN BatchAt(notes, i + batch_size) ELSE <<>>
  /\ eligible_debug' = IF allow_duplicate
                         THEN BatchAt(note_debugs, i + batch_size) ELSE <<>>
  /\ mark' = [fail |-> fail_count', errors |-> Len(errors'),
              success |-> success_count']

\* Lines 875-877 and 899-901: the batch is accounted as processed, the callback
\* runs and the loop moves to the next batch
EndBatch ==
  /\ processed' = processed + Len(batch)
  /\ reports' = IF progress_callback
                  THEN Append(reports, [done |-> processed + Len(batch),
                                        total |-> Len(highlights),
                                        phase |-> "batch"])
                  ELSE reports
  /\ i' = i + batch_size
  /\ pc' = LoopPc(i + batch_size, Len(notes), allow_duplicate)
  /\ eligible_batch' = IF allow_duplicate
                         THEN BatchAt(notes, i + batch_size) ELSE <<>>
  /\ eligible_debug' = IF allow_duplicate
                         THEN BatchAt(note_debugs, i + batch_size) ELSE <<>>
  /\ mark' = [fail |-> fail_count', errors |-> Len(errors'),
              success |-> success_count']

\* CanAddNotes that counts the rejected records but submits the whole batch
CanAddNotes_NoFilter ==
  /\ pc = "check"
  /\ \E eligibility \in EligibilityVectors(Len(batch)) :
       LET no == Positions(eligibility, FALSE)
       IN /\ eligible_batch' = batch
          /\ eligible_debug' = debug_batch
          /\ fail_count' = fail_count + Len(no)
          /\ errors' = errors \o
               [k \in 1..Len(no) |-> DuplicateDiag(debug_batch[no[k]], i)]
          /\ calls' = Append(calls, [action |-> "canAddNotes", notes |-> batch,
                                     ok |-> TRUE, result |-> eligibility])
  /\ pc' = "submit"
  /\ UNCHANGED <<normalizer, client, inputs, available_fields, remapped_mapping, notes, note_debugs,
                 skipped_empty, success_count, processed, i, reports, mark,
                 raised>>

\* Lines 849-867: canAddNotes answers; the batch is filtered
CanAddNotes ==
  /\ pc = "check"
  /\ \E eligibility \in EligibilityVectors(Len(batch)) :
       LET yes == Positions(eligibility, TRUE)
           no == Positions(eligibility, FALSE)
       IN /\ eligible_batch' = Pick(batch, yes)
          /\ eligible_debug' = Pick(debug_batch, yes)
          /\ fail_count' = fail_count + Len(no)
          /\ errors' = errors \o
               [k \in 1..Len(no) |-> DuplicateDiag(debug_batch[no[k]], i)]
          /\ calls' = Append(calls, [action |-> "canAddNotes", notes |-> batch,
                                     ok |-> TRUE, result |-> eligibility])
  /\ pc' = "submit"
  /\ UNCHANGED <<normalizer, client, inputs, available_fields, remapped_mapping, notes, note_debugs,
                 skipped_empty, success_count, processed, i, reports, mark,
                 raised>>

\* CanAddNotesFails that records the failed query as a failure
CanAddNotesFails_CountsFailure ==
  /\ pc = "check"
  /\ eligible_batch' = batch
  /\ eligible_debug' = debug_batch
  /\ fail_count' = fail_count + 1
  /\ errors' = Append(errors, TransportDiag)
  /\ calls' = Append(calls, [action |-> "canAddNotes", notes |-> batch,
                             ok |-> FALSE, result |-> <<>>])
  /\ pc' = "submit"
  /\ UNCHANGED <<normalizer, client, inputs, available_fields, remapped_mapping, notes, note_debugs,
                 skipped_empty, success_count, processed, i, reports, mark,
                 raised>>

\* Lines 868-871: canAddNotes fails; the whole batch stays eligible
CanAddNotesFails ==
  /\ pc = "check"
  /\ eligible_batch' = batch
  /\ eligible_debug' = debug_batch
  /\ calls' = Append(calls, [action |-> "canAddNotes", notes |-> batch,
                             ok |-> FALSE, result |-> <<>>])
  /\ pc' = "submit"
  /\ UNCHANGED <<normalizer, client, inputs, available_fields, remapped_mapping, notes, note_debugs,
                 skipped_empty, success_count, fail_count, errors, processed, i,
                 reports, mark, raised>>

\* BatchSkipped that moves on without accounting the batch as processed
BatchSkipped_NoProgress ==
  /\ pc = "submit"
  /\ eligible_batch = <<>>
  /\ i' = i + batch_size
  /\ pc' = LoopPc(i + batch_size, Len(notes), allow_duplicate)
  /\ UNCHANGED <<normalizer, client, inputs, available_fields, remapped_mapping, notes, note_debugs,
                 skipped_empty, success_count, fail_count, errors, processed,
                 eligible_batch, eligible_debug, calls, reports, mark, raised>>

\* Lines 874-878: nothing is eligible, the batch is skipped without a submit
BatchSkipped ==
  /\ pc = "submit"
  /\ eligible_batch = <<>>
  /\ UNCHANGED <<success_count, fail_count, errors, calls>>
  /\ EndBatch
  /\ UNCHANGED <<normalizer, client, inputs, available_fields, remapped_mapping, notes, note_debugs,
                 skipped_empty, raised>>

\* AddNotes that reads the diagnostic of a null slot at the slot's position
\* in the whole batch
AddNotes_DebugOfBatch ==
  /\ pc = "submit"
  /\ eligible_batch # <<>>
  /\ \E results \in ResultVectors(Len(eligible_batch)) :
       LET nulls == Positions(results, None)
       IN /\ success_count' = success_count + (Len(results) - Len(nulls))
          /\ fail_count' = fail_count + Len(nulls)
          /\ errors' = errors \o
               [k \in 1..Len(nulls) |->
                  FailedDiag(DebugAt(debug_batch, nulls[k]), i, nulls[k])]
          /\ calls' = Append(calls, [action |-> "addNotes",
                                     notes |-> eligible_batch,
                                     ok |-> TRUE, result |-> results])
  /\ EndBatch
  /\ UNCHANGED <<normalizer, client, inputs, available_fields, remapped_mapping, notes, note_debugs,
                 skipped_empty, raised>>

\* Lines 880-894 and 899-901: addNotes answers with one slot per note
AddNotes ==
  /\ pc = "submit"
  /\ eligible_batch # <<>>
  /\ \E results \in ResultVectors(Len(eligible_batch)) :
       LET nulls == Positions(results, None)
       IN /\ success_count' = success_count + (Len(results) - Len(nulls))
          /\ fail_count' = fail_count + Len(nulls)
          /\ errors' = errors \o
               [k \in 1..Len(nulls) |->
                  FailedDiag(DebugAt(eligible_debug, nulls[k]), i, nulls[k])]
          /\ calls' = Append(calls, [action |-> "addNotes",
                                     notes |-> eligible_batch,
                                     ok |-> TRUE, result |-> results])
  /\ EndBatch
  /\ UNCHANGED <<normalizer, client, inputs, available_fields, remapped_mapping, notes, note_debugs,
                 skipped_empty, raised>>

\* AddNotesFails that lets the error reach the caller
AddNotesFails_Raises ==
  /\ pc = "submit"
  /\ eligible_batch # <<>>
  /\ pc' = "done"
  /\ raised' = TransportError
  /\ calls' = Append(calls, [action |-> "addNotes", notes |-> eligible_batch,
                             ok |-> FALSE, result |-> <<>>])
  /\ UNCHANGED <<normalizer, client, inputs, available_fields, remapped_mapping, notes, note_debugs,
                 skipped_empty, success_count, fail_count, errors, processed, i,
                 eligible_batch, eligible_debug, reports, mark>>

\* AddNotesFails that counts the failure and leaves the batch to be submitted
\* again
AddNotesFails_Retry ==
  /\ pc = "submit"
  /\ eligible_batch # <<>>
  /\ fail_count' = fail_count + Len(batch)
  /\ errors' = Append(errors, TransportDiag)
  /\ calls' = Append(calls, [action |-> "addNotes", notes |-> eligible_batch,
                             ok |-> FALSE, result |-> <<>>])
  /\ UNCHANGED <<normalizer, client, inputs, available_fields, remapped_mapping, notes,
                 note_debugs, skipped_empty, success_count, processed, i, pc,
                 eligible_batch, eligible_debug, reports, mark, raised>>

\* Lines 895-901: addNotes fails at transport level
AddNotesFails ==
  /\ pc = "submit"
  /\ eligible_batch # <<>>
  /\ success_count' = success_count
  /\ fail_count' = fail_count + Len(batch)
  /\ errors' = Append(errors, TransportDiag)
  /\ calls' = Append(calls, [action |-> "addNotes", notes |-> eligible_batch,
                             ok |-> FALSE, result |-> <<>>])
  /\ EndBatch
  /\ UNCHANGED <<normalizer, client, inputs, available_fields, remapped_mapping, notes, note_debugs,
                 skipped_empty, raised>>

\* Finish that counts the skipped records but adds no summary line
Finish_NoSummary ==
  /\ pc = "fold"
  /\ fail_count' = fail_count + skipped_empty
  /\ pc' = "done"
  /\ UNCHANGED <<normalizer, client, inputs, available_fields, remapped_mapping, notes,
                 note_debugs, skipped_empty, success_count, errors, processed,
                 i, eligible_batch, eligible_debug, calls, reports, mark,
                 raised>>

\* Lines 903-907: the skipped records are folded in and the triple is returned
Finish ==
  /\ pc = "fold"
  /\ fail_count' = fail_count + skipped_empty
  /\ errors' = IF skipped_empty > 0
                 THEN Append(errors, SkippedDiag(skipped_empty)) ELSE errors
  /\ pc' = "done"
  /\ UNCHANGED <<normalizer, client, inputs, available_fields, remapped_mapping, notes, note_debugs,
                 skipped_empty, success_count, processed, i, eligible_batch,
                 eligible_debug, calls, reports, mark, raised>>

----------------------------------------------------------------------------
(* Deck and note type operations of the client: the cached name lists
   (lines 149-187 and 241-274) and ensure_makhfouz_model (lines 288-446) *)

\* Number of client operations in one behaviour
MaxOps == 3

\* MAKHFOUZ_NOTE_TYPE (line 24)
MAKHFOUZ_NOTE_TYPE == "Makhfouz Highlight"

\* A cache attribute that holds None (lines 69-70); one that holds the list
\* names is <<names>>
NoCache == <<>>

\* The local variable models when the assignment of line 291 never happened;
\* bound to the list names it is <<names>>
Unbound == <<>>

\* The field list ensure_makhfouz_model creates (anki_connect.py line 295)
MakhfouzFields ==
  <<"Front", "Back", "Source", "Author", "Chapter", "Page", "Date", "UID">>

\* The deck an export creates (anki_ui.py line 1103)
DeckNames == {"KOHighlights::Book"}

\* Field names add_field_to_model is called with outside the reconciler
ExtraFields == {"UID", "Extra"}

\* The outcomes a request can have: it fails at transport level at any time,
\* it succeeds only when the remote side can carry it out
Answers(possible) == IF possible THEN BOOLEAN ELSE {FALSE}

\* Missing that takes every desired field as missing
Missing_All(fields, existing) == fields

\* Missing with the test of line 419 inverted
Missing_Present(fields, existing) ==
  SelectSeq(fields, LAMBDA f : f \in Range(existing))

\* Line 419: the desired fields absent from the fetched field list, in order
Missing(fields, existing) ==
  SelectSeq(fields, LAMBDA f : f \notin Range(existing))

\* The remote note type has every desired field
Conforming ==
  /\ MAKHFOUZ_NOTE_TYPE \in remote_models
  /\ Range(MakhfouzFields) \subseteq Range(remote_fields)

\* One request of _request (lines 72-105), made by the operation numbered op
Request(action, param, ok, op) ==
  [action |-> action, param |-> param, ok |-> ok, op |-> op]

\* The entry of ops for an operation that starts
Started(name, force) ==
  [name |-> name, force |-> force, conforming |-> Conforming,
   fetched |-> FALSE, raised |-> FALSE]

\* __init__ (lines 66-70), nothing requested yet
Constructed ==
  /\ cached_decks = NoCache
  /\ cached_note_types = NoCache
  /\ cpc = "idle"
  /\ models = Unbound
  /\ existing_fields = <<>>
  /\ missing_fields = <<>>
  /\ requests = <<>>
  /\ ops = <<>>

\* The client is idle and may start another operation
Idle == cpc = "idle" /\ Len(ops) < MaxOps

\* A listing operation (lines 156-158 and 248-250): the request is made when
\* nothing is cached or a refresh is forced, and its failure leaves the cache
\* as it was and reaches the caller
Listing(name, action, cache, remote, force, ok) ==
  IF cache = NoCache \/ force
    THEN /\ requests' = Append(requests, Request(action, <<>>, ok, Len(ops) + 1))
         /\ ops' = Append(ops, [Started(name, force) EXCEPT
                                  !.fetched = TRUE, !.raised = ~ok])
    ELSE /\ requests' = requests
         /\ ops' = Append(ops, Started(name, force))

\* The cache attribute after the listing operation
Listed(cache, remote, force, ok) ==
  IF (cache = NoCache \/ force) /\ ok THEN <<remote>> ELSE cache

\* get_deck_names (lines 149-158)
GetDeckNames ==
  /\ Idle
  /\ \E force \in BOOLEAN, ok \in BOOLEAN :
       /\ Listing("get_deck_names", "deckNames", cached_decks, remote_decks,
                  force, ok)
       /\ cached_decks' = Listed(cached_decks, remote_decks, force, ok)
  /\ UNCHANGED <<normalizer, export, cached_note_types, remote_decks, remote_models,
                 remote_fields, cpc, models, existing_fields, missing_fields>>

\* get_model_names called by the application (lines 241-250)
GetModelNames ==
  /\ Idle
  /\ \E force \in BOOLEAN, ok \in BOOLEAN :
       /\ Listing("get_model_names", "modelNames", cached_note_types,
                  remote_models, force, ok)
       /\ cached_note_types' = Listed(cached_note_types, remote_models, force, ok)
  /\ UNCHANGED <<normalizer, export, cached_decks, remote_decks, remote_models,
                 remote_fields, cpc, models, existing_fields, missing_fields>>

\* A mutating operation: one request, whose failure reaches the caller
Mutation(name, action, param, ok) ==
  /\ requests' = Append(requests, Request(action, param, ok, Len(ops) + 1))
  /\ ops' = Append(ops, [Started(name, FALSE) EXCEPT
                           !.fetched = TRUE, !.raised = ~ok])

\* create_deck without the cache reset of line 176
CreateDeck_KeepsCache ==
  /\ Idle
  /\ \E deck \in DeckNames, ok \in BOOLEAN :
       /\ Mutation("create_deck", "createDeck", deck, ok)
       /\ remote_decks' = IF ok THEN remote_decks \cup {deck} ELSE remote_decks
  /\ UNCHANGED <<normalizer, export, cached_decks, cached_note_types, remote_models,
                 remote_fields, cpc, models, existing_fields, missing_fields>>

\* create_deck (lines 168-177): line 176 runs only when the request succeeded
CreateDeck ==
  /\ Idle
  /\ \E deck \in DeckNames, ok \in BOOLEAN :
       /\ Mutation("create_deck", "createDeck", deck, ok)
       /\ remote_decks' = IF ok THEN remote_decks \cup {deck} ELSE remote_decks
       /\ cached_decks' = IF ok THEN NoCache ELSE cached_decks
  /\ UNCHANGED <<normalizer, export, cached_note_types, remote_models, remote_fields, cpc,
                 models, existing_fields, missing_fields>>

\* delete_decks (lines 179-187)
DeleteDecks ==
  /\ Idle
  /\ \E deck \in DeckNames, ok \in BOOLEAN :
       /\ Mutation("delete_decks", "deleteDecks", deck, ok)
       /\ remote_decks' = IF ok THEN remote_decks \ {deck} ELSE remote_decks
       /\ cached_decks' = IF ok THEN NoCache ELSE cached_decks
  /\ UNCHANGED <<normalizer, export, cached_note_types, remote_models, remote_fields, cpc,
                 models, existing_fields, missing_fields>>

\* The remote field list after a modelFieldAdd request
FieldAdded(field, ok) ==
  IF ok /\ field \notin Range(remote_fields)
    THEN Append(remote_fields, field) ELSE remote_fields

\* add_field_to_model called by the application (lines 269-274): no cache
\* attribute is written
AddFieldToModel ==
  /\ Idle
  /\ \E field \in ExtraFields,
        ok \in Answers(MAKHFOUZ_NOTE_TYPE \in remote_models) :
       /\ Mutation("add_field_to_model", "modelFieldAdd", field, ok)
       /\ remote_fields' = FieldAdded(field, ok)
  /\ UNCHANGED <<normalizer, export, cached_decks, cached_note_types, remote_decks,
                 remote_models, cpc, models, existing_fields, missing_fields>>

\* The request of the running operation, numbered Len(ops)
Step(action, param, ok) ==
  requests' = Append(requests, Request(action, param, ok, Len(ops)))

\* ensure_makhfouz_model returns to its caller
Return == cpc' = "idle" /\ existing_fields' = <<>> /\ missing_fields' = <<>>

\* Line 415: the note type is in the list bound to models, an unbound models
\* reading as the empty list
Known(ms) == ms # Unbound /\ MAKHFOUZ_NOTE_TYPE \in ms[1]

\* Lines 290-293 and 415: the note type names, from the cache when there is
\* one; a failed request leaves models unbound
EnsureModelNames ==
  /\ Idle
  /\ \E ok \in BOOLEAN :
       LET fetch == cached_note_types = NoCache
           bound == IF fetch
                      THEN IF ok THEN <<remote_models>> ELSE Unbound
                      ELSE cached_note_types
       IN /\ requests' = IF fetch
                           THEN Append(requests, Request("modelNames", <<>>, ok,
                                                         Len(ops) + 1))
                           ELSE requests
          /\ cached_note_types' = IF fetch /\ ok THEN <<remote_models>>
                                  ELSE cached_note_types
          /\ models' = bound
          /\ cpc' = IF Known(bound) THEN "fields" ELSE "create"
  /\ ops' = Append(ops, Started("ensure_makhfouz_model", FALSE))
  /\ UNCHANGED <<normalizer, export, cached_decks, remote_decks, remote_models,
                 remote_fields, existing_fields, missing_fields>>

\* Lines 417-419, and 435-437 when the request fails
EnsureFieldNames ==
  /\ cpc = "fields"
  /\ \E ok \in Answers(MAKHFOUZ_NOTE_TYPE \in remote_models) :
       /\ Step("modelFieldNames", MAKHFOUZ_NOTE_TYPE, ok)
       /\ IF ok
            THEN LET missing == Missing(MakhfouzFields, remote_fields)
                 IN /\ existing_fields' = remote_fields
                    /\ missing_fields' = missing
                    /\ cpc' = IF missing = <<>> THEN "style" ELSE "add"
            ELSE Return
  /\ UNCHANGED <<normalizer, export, cached_decks, cached_note_types, remote_decks,
                 remote_models, remote_fields, models, ops>>

\* EnsureAddField that gives up the remaining fields when an add fails
EnsureAddField_StopsOnFailure ==
  /\ cpc = "add"
  /\ \E ok \in Answers(MAKHFOUZ_NOTE_TYPE \in remote_models) :
       /\ Step("modelFieldAdd", Head(missing_fields), ok)
       /\ remote_fields' = FieldAdded(Head(missing_fields), ok)
       /\ missing_fields' = IF ok THEN Tail(missing_fields) ELSE <<>>
       /\ cpc' = IF ok /\ Tail(missing_fields) # <<>> THEN "add" ELSE "style"
  /\ UNCHANGED <<normalizer, export, cached_decks, cached_note_types, remote_decks,
                 remote_models, models, existing_fields, ops>>

\* Lines 420-424: one missing field is added; a failure is passed over
EnsureAddField ==
  /\ cpc = "add"
  /\ \E ok \in Answers(MAKHFOUZ_NOTE_TYPE \in remote_models) :
       /\ Step("modelFieldAdd", Head(missing_fields), ok)
       /\ remote_fields' = FieldAdded(Head(missing_fields), ok)
  /\ missing_fields' = Tail(missing_fields)
  /\ cpc' = IF Tail(missing_fields) = <<>> THEN "style" ELSE "add"
  /\ UNCHANGED <<normalizer, export, cached_decks, cached_note_types, remote_decks,
                 remote_models, models, existing_fields, ops>>

\* EnsureStyling whose failure falls through to the creation of the note type
EnsureStyling_FallsThrough ==
  /\ cpc = "style"
  /\ \E ok \in Answers(MAKHFOUZ_NOTE_TYPE \in remote_models) :
       /\ Step("updateModelStyling", MAKHFOUZ_NOTE_TYPE, ok)
       /\ cpc' = IF ok THEN "templates" ELSE "create"
  /\ UNCHANGED <<normalizer, export, cached_decks, cached_note_types, remote_decks,
                 remote_models, remote_fields, models, ops, existing_fields,
                 missing_fields>>

\* Line 425; a failure ends the call through lines 435-437
EnsureStyling ==
  /\ cpc = "style"
  /\ \E ok \in Answers(MAKHFOUZ_NOTE_TYPE \in remote_models) :
       /\ Step("updateModelStyling", MAKHFOUZ_NOTE_TYPE, ok)
       /\ IF ok THEN /\ cpc' = "templates"
                     /\ UNCHANGED <<existing_fields, missing_fields>>
                ELSE Return
  /\ UNCHANGED <<normalizer, export, cached_decks, cached_note_types, remote_decks,
                 remote_models, remote_fields, models, ops>>

\* Lines 426-437
EnsureTemplates ==
  /\ cpc = "templates"
  /\ \E ok \in Answers(MAKHFOUZ_NOTE_TYPE \in remote_models) :
       Step("updateModelTemplates", MAKHFOUZ_NOTE_TYPE, ok)
  /\ Return
  /\ UNCHANGED <<normalizer, export, cached_decks, cached_note_types, remote_decks,
                 remote_models, remote_fields, models, ops>>

\* EnsureCreate that lets a failed creation reach the caller
EnsureCreate_Raises ==
  /\ cpc = "create"
  /\ \E ok \in Answers(MAKHFOUZ_NOTE_TYPE \notin remote_models) :
       /\ Step("createModel", MAKHFOUZ_NOTE_TYPE, ok)
       /\ remote_models' = IF ok THEN remote_models \cup {MAKHFOUZ_NOTE_TYPE}
                           ELSE remote_models
       /\ remote_fields' = IF ok THEN MakhfouzFields ELSE remote_fields
       /\ ops' = [ops EXCEPT ![Len(ops)].raised = ~ok]
  /\ Return
  /\ UNCHANGED <<normalizer, export, cached_decks, cached_note_types, remote_decks,
                 models>>

\* Lines 441-446: the note type is created; a failure is passed over and no
\* cache attribute is written
EnsureCreate ==
  /\ cpc = "create"
  /\ \E ok \in Answers(MAKHFOUZ_NOTE_TYPE \notin remote_models) :
       /\ Step("createModel", MAKHFOUZ_NOTE_TYPE, ok)
       /\ remote_models' = IF ok THEN remote_models \cup {MAKHFOUZ_NOTE_TYPE}
                           ELSE remote_models
       /\ remote_fields' = IF ok THEN MakhfouzFields ELSE remote_fields
  /\ Return
  /\ UNCHANGED <<normalizer, export, cached_decks, cached_note_types, remote_decks,
                 models, ops>>

----------------------------------------------------------------------------
(* Inputs *)

Quote == <<"Quote">>

Remark == <<"Remark">>

\* A record as _extract_highlights and export_to_anki build it
\* (anki_integration.py lines 205-213 and 330-332)
Full ==
  [text |-> Quote, highlight |-> Quote, comment |-> Remark,
   chapter |-> <<"Ch1">>, page |-> <<"12">>, book_title |-> <<"Book">>]

\* A record as _prepare_highlights builds it (anki_ui.py lines 1037-1045)
Plain ==
  [highlight |-> Quote, comment |-> <<>>, chapter |-> <<>>,
   page |-> <<"12">>, book_title |-> <<"Book">>]

\* A record with neither highlight text nor comment
Empty ==
  [highlight |-> <<>>, comment |-> <<>>, chapter |-> <<"Ch1">>,
   page |-> <<"12">>, book_title |-> <<"Book">>]

\* A record whose highlight text is whitespace only
Blank ==
  [highlight |-> <<WS>>, comment |-> <<>>, chapter |-> <<"Ch1">>,
   page |-> <<"12">>, book_title |-> <<"Book">>]

PipeKinds == {Full, Plain, Empty, Blank}

\* Each record of a list gets its position as its page, so that a diagnostic
\* identifies the record it is about
Numbered(list) ==
  [n \in 1..Len(list) |-> [list[n] EXCEPT !.page = <<ToString(n)>>]]

SeqsUpTo(S, n) == UNION {[1..k -> S] : k \in 0..n}

ShortLists == {Numbered(l) : l \in SeqsUpTo(PipeKinds, MaxShort)}

\* The pattern p repeated to n records
Cycle(p, n) == [k \in 1..n |-> p[((k - 1) % Len(p)) + 1]]

LongPatterns == {<<Full>>, <<Plain, Empty>>, <<Blank, Full>>}

\* One record less than, exactly, and one record more than k full batches
LongSizes == {k * batch_size + d : k \in 1..MaxFull, d \in {-1, 0, 1}}

\* The batch of three of the duplicate-filter scenario
ScenarioList == <<Full, Plain, Full>>

LongLists ==
  {Numbered(Cycle(p, n)) : p \in LongPatterns, n \in LongSizes}
    \cup {Numbered(ScenarioList)}

Entry(s, t) == [source |-> s, target |-> t]

\* The mapping _build_field_mapping returns (anki_ui.py lines 1056-1064) for
\* the combo selections h, c and m
UIMapping(h, c, m) ==
  <<Entry("highlight", h), Entry("comment", c), Entry("page", m),
    Entry("chapter", m), Entry("date", m), Entry("book_title", m),
    Entry("author", m)>>

\* DEFAULT_FIELD_MAPPINGS (anki_connect.py lines 28-37)
DefaultMapping ==
  <<Entry("highlight", "Front"), Entry("comment", "Back"),
    Entry("book_title", "Source"), Entry("chapter", "Chapter"),
    Entry("page", "Page"), Entry("date", "Date"), Entry("author", "Author"),
    Entry("uid", "UID")>>

BasicFields == <<"Front", "Back">>

PipeMappings == {UIMapping("Front", "Back", "Back"), DefaultMapping}

PipeSchemas == {<<>>, BasicFields, MakhfouzFields}

FrontContents == {"comment", "highlight"}

\* The state on entry to bulk_add_highlights
Entered ==
  /\ pc = "start"
  /\ available_fields = <<>>
  /\ remapped_mapping = <<>>
  /\ notes = <<>>
  /\ note_debugs = <<>>
  /\ skipped_empty = 0
  /\ success_count = 0
  /\ fail_count = 0
  /\ errors = <<>>
  /\ processed = 0
  /\ i = 0
  /\ eligible_batch = <<>>
  /\ eligible_debug = <<>>
  /\ calls = <<>>
  /\ reports = <<>>
  /\ mark = [fail |-> 0, errors |-> 0, success |-> 0]
  /\ raised = ""

\* Short input lists under every combination of the other arguments
InitShort ==
  /\ highlights \in ShortLists
  /\ field_mapping \in PipeMappings
  /\ model_fields \in PipeSchemas
  /\ allow_duplicate \in BOOLEAN
  /\ front_content \in FrontContents
  /\ progress_callback \in BOOLEAN

\* Input lists of about a batch and more, and the batch of three, exported
\* through the dialog's mapping
InitLong ==
  /\ highlights \in LongLists
  /\ field_mapping = UIMapping("Front", "Back", "Back")
  /\ model_fields = BasicFields
  /\ allow_duplicate \in BOOLEAN
  /\ front_content = "comment"
  /\ progress_callback = TRUE

\* The collection the exports run against
RemoteAtRest ==
  /\ remote_decks = {"Default"}
  /\ remote_models = {"Basic"}
  /\ remote_fields = <<>>

\* No book is being normalized
NormalizerAtRest ==
  /\ data = <<>>
  /\ show_ref_pg = FALSE
  /\ xpc = "start"
  /\ extracted = <<>>
  /\ extract_raised = ""

Init == (InitShort \/ InitLong) /\ Entered /\ Constructed /\ RemoteAtRest /\ NormalizerAtRest

Next ==
  \/ FetchFails
  \/ NoFields
  \/ Prepare
  \/ CanAddNotes
  \/ CanAddNotesFails
  \/ BatchSkipped
  \/ AddNotes
  \/ AddNotesFails
  \/ Finish

Spec == Init /\ [][Next]_vars

----------------------------------------------------------------------------
(* Inputs of the resolution and materialization checks: one record, under
   every declared mapping over a small set of target names, against schemas
   with and without fields named Front and Back *)

\* A record keeps its highlight text under "highlight", or under "text" alone
HighlightParts ==
  {[highlight |-> v] : v \in {<<>>, <<WS>>, Quote}} \cup {[text |-> Quote]}

\* f extended by g (their keys are disjoint)
Merge(f, g) ==
  [k \in (DOMAIN f) \cup (DOMAIN g) |-> IF k \in DOMAIN f THEN f[k] ELSE g[k]]

MatRecords ==
  {Merge(h, [comment |-> c, page |-> p, chapter |-> <<"Ch1">>,
             book_title |-> <<"Book">>]) :
     h \in HighlightParts,
     c \in {<<>>, <<WS>>, Remark},
     p \in {<<>>, <<"12">>}}

\* Target names a declared mapping may hold; "" is an unmapped key
MatTargets == {"Front", "Back", "Extra", ""}

MatKeys == <<"highlight", "comment", "page", "chapter">>

\* What a declared mapping may say of a key: a target, or nothing (None)
MatChoices(key) ==
  IF key = "chapter" THEN {"Back", "Extra", None} ELSE MatTargets \cup {None}

\* The declared mappings over the keys of MatKeys, in that order, each key
\* either left out or given a target
MatMappings ==
  LET choices == {c \in [1..Len(MatKeys) -> MatTargets \cup {None}] :
                    \A k \in 1..Len(MatKeys) : c[k] \in MatChoices(MatKeys[k])}
      entries(c) == [k \in 1..Len(MatKeys) |-> Entry(MatKeys[k], c[k])]
  IN {SelectSeq(entries(c), LAMBDA e : e.target # None) : c \in choices}

\* A mapping declared in another order, with every key on one field
ReversedMapping ==
  <<Entry("chapter", "Back"), Entry("page", "Back"), Entry("comment", "Back"),
    Entry("highlight", "Back")>>

MatSchemas ==
  {<<>>, BasicFields, <<"Text">>, <<"Text", "Extra", "More">>,
   <<"Extra", "Back">>, <<"Front", "Text">>, <<"Extra", "Front">>}

InitMat ==
  /\ highlights \in {<<r>> : r \in MatRecords}
  /\ field_mapping \in MatMappings \cup {ReversedMapping}
  /\ model_fields \in MatSchemas
  /\ allow_duplicate = FALSE
  /\ front_content \in FrontContents
  /\ progress_callback = TRUE
  /\ Entered
  /\ Constructed
  /\ RemoteAtRest
  /\ NormalizerAtRest

\* bulk_add_highlights from the answer to its field query to the notes prepared
NextMat == NoFields \/ Prepare

SpecMat == InitMat /\ [][NextMat]_vars

----------------------------------------------------------------------------
(* The client's deck and note type operations against a collection that has
   the Makhfouz note type or not, with all or part of its fields *)

\* Field lists of an existing Makhfouz note type: complete, two fields short,
\* and one field short with a field of its own
ClientSchemas ==
  {MakhfouzFields, SubSeq(MakhfouzFields, 1, 6),
   Append(SubSeq(MakhfouzFields, 1, 7), "Extra")}

InitClient ==
  /\ remote_decks = {"Default"}
  /\ \/ remote_models = {"Basic"} /\ remote_fields = <<>>
     \/ /\ remote_models = {"Basic", MAKHFOUZ_NOTE_TYPE}
        /\ remote_fields \in ClientSchemas
  /\ Constructed
  /\ highlights = <<>>
  /\ field_mapping = DefaultMapping
  /\ model_fields = <<>>
  /\ allow_duplicate = FALSE
  /\ front_content = "comment"
  /\ progress_callback = FALSE
  /\ Entered
  /\ NormalizerAtRest

NextClient ==
  \/ GetDeckNames
  \/ GetModelNames
  \/ CreateDeck
  \/ DeleteDecks
  \/ AddFieldToModel
  \/ EnsureModelNames
  \/ EnsureFieldNames
  \/ EnsureAddField
  \/ EnsureStyling
  \/ EnsureTemplates
  \/ EnsureCreate

SpecClient == InitClient /\ [][NextClient]_vars

----------------------------------------------------------------------------
(* The annotation normalizer, src/src/anki_integration.py lines 153-253.

   A value of the decoded metadata is a record [kind, items]: "map" is a
   dict keyed by numbers (annotation index, page, id on the page), its items
   a sequence of [key, val] in insertion order; "dict" is a dict keyed by
   names, its items a function from the names to text; "list", "str" and
   "int" are a list, a string and a number; "none" is None. The book's
   metadata itself is a function from its top-level keys to values. *)

Map(items) == [kind |-> "map", items |-> items]

Dict(fields) == [kind |-> "dict", items |-> fields]

List(items) == [kind |-> "list", items |-> items]

Str(tokens) == [kind |-> "str", items |-> tokens]

Num(n) == [kind |-> "int", items |-> <<n>>]

PyNone == [kind |-> "none", items |-> <<>>]

\* The outcome of an expression: its value, or the class of the error raised
Ok(v) == [err |-> "", val |-> v]

Err(class) == [err |-> class, val |-> PyNone]

\* The names a dict of the metadata may hold, in their insertion order
DictKeys ==
  <<"pos0", "text", "note", "notes", "chapter", "datetime", "pageno",
    "pageref">>

\* for x in v: the values x takes, or the TypeError of a value that is not
\* iterable
Iter(v) ==
  CASE v.kind = "map" ->
         Ok([j \in 1..Len(v.items) |-> Num(v.items[j].key)])
    [] v.kind = "dict" ->
         LET keys == SelectSeq(DictKeys, LAMBDA k : k \in DOMAIN v.items)
         IN Ok([j \in 1..Len(keys) |-> Str(<<keys[j]>>)])
    [] v.kind = "list" -> Ok(v.items)
    [] v.kind = "str" -> Ok([j \in 1..Len(v.items) |-> Str(<<v.items[j]>>)])
    [] OTHER -> Err("TypeError")

\* v[k]
Index(v, k) ==
  CASE v.kind = "map" ->
         IF k.kind = "int"
           THEN LET hits == {j \in 1..Len(v.items) : v.items[j].key = k.items[1]}
                IN IF hits # {} THEN Ok(v.items[CHOOSE j \in hits : TRUE].val)
                   ELSE Err("KeyError")
           ELSE IF k.kind \in {"map", "dict", "list"} THEN Err("TypeError")
           ELSE Err("KeyError")
    [] v.kind = "dict" ->
         IF k.kind = "str"
           THEN IF Len(k.items) = 1 /\ k.items[1] \in DOMAIN v.items
                  THEN Ok(Str(v.items[k.items[1]]))
                  ELSE Err("KeyError")
           ELSE IF k.kind \in {"map", "dict", "list"} THEN Err("TypeError")
           ELSE Err("KeyError")
    [] v.kind \in {"list", "str"} ->
         IF k.kind = "int"
           THEN IF k.items[1] \in 0..(Len(v.items) - 1)
                  THEN Ok(IF v.kind = "list" THEN v.items[k.items[1] + 1]
                          ELSE Str(<<v.items[k.items[1] + 1]>>))
                  ELSE Err("IndexError")
           ELSE Err("TypeError")
    [] OTHER -> Err("TypeError")

\* v has a get method
HasGet(v) == v.kind \in {"map", "dict"}

\* v.get(name, default) for a v that has the method
DGet(v, name, default) ==
  IF v.kind = "dict" /\ name \in DOMAIN v.items THEN v.items[name]
  ELSE default

\* An escaped line break, a line break
ESCNL == "\\<nl>"

NL == "<nl>"

\* .replace("\\\n", "\n")
Unescape(s) == [j \in 1..Len(s) |-> IF s[j] = ESCNL THEN NL ELSE s[j]]

\* The text a bookmark opens with ("Page 12 ") and closes with
\* (" @ 2020-01-02 03:04:05")
PAGEPFX == "Page 12 "

STAMP == " @ 2020-01-02 03:04:05"

\* Lines 238-239: re.sub of the first "Page n (.+?) @ stamp" by its group
ReSub(s) ==
  LET closes(p) == {q \in (p + 2)..Len(s) : s[q] = STAMP}
      opens == {p \in 1..Len(s) : s[p] = PAGEPFX /\ closes(p) # {}}
  IN IF opens = {} THEN s
     ELSE LET p == CHOOSE x \in opens : \A y \in opens : x <= y
              q == CHOOSE x \in closes(p) : \A y \in closes(p) : x <= y
          IN SubSeq(s, 1, p - 1) \o SubSeq(s, p + 1, q - 1)
               \o SubSeq(s, q + 1, Len(s))

\* Page numbers written in digits
Digits == {"0", "7", "12", "13"}

\* str(ref_page).isdigit()
IsDigit(s) == Len(s) = 1 /\ s[1] \in Digits

\* Lines 184-213: the record of the annotation idx, None for a bookmark
GetNewHighlightInfo(d, idx, show) ==
  LET got == Index(d["annotations"], idx)
      high_data == got.val
      page == DGet(high_data, "pageno", <<"0">>)
      pageref == DGet(high_data, "pageref", <<>>)
      ref_page == IF pageref # <<>> /\ IsDigit(pageref) THEN pageref ELSE page
  IN IF got.err # "" THEN got
     ELSE IF ~HasGet(high_data) THEN Err("AttributeError")
     ELSE IF DGet(high_data, "pos0", <<>>) = <<>> THEN Ok(PyNone)
     ELSE Ok(Dict([text |-> Unescape(DGet(high_data, "text", <<>>)),
                   highlight |-> Unescape(DGet(high_data, "text", <<>>)),
                   chapter |-> DGet(high_data, "chapter", <<>>),
                   comment |-> Unescape(DGet(high_data, "note", <<>>)),
                   date |-> DGet(high_data, "datetime", <<>>),
                   page |-> IF show THEN ref_page ELSE page,
                   idx |-> idx]))

\* Lines 229-241: the comment found in the bookmarks, looked at in order up
\* to the first whose notes are the highlight's text
RECURSIVE FindComment(_, _, _)
FindComment(bookmarks, keys, text) ==
  IF Len(keys) = 0 THEN Ok(<<>>)
  ELSE LET got == Index(bookmarks, keys[1])
           bookmark == got.val
       IN IF got.err # "" THEN got
          ELSE IF ~HasGet(bookmark) THEN Err("AttributeError")
          ELSE IF text = DGet(bookmark, "notes", <<None>>)
            THEN LET bkm_text == DGet(bookmark, "text", <<>>)
                 IN IF bkm_text # <<>> /\ bkm_text # text
                         /\ ReSub(bkm_text) # text
                      THEN Ok(Unescape(ReSub(bkm_text)))
                      ELSE Ok(<<>>)
            ELSE FindComment(bookmarks, Tail(keys), text)

\* The error classes caught at lines 181 and 252
Caught(class) == class \in {"KeyError", "TypeError"}

\* Lines 215-253: the record of the highlight page_id of page, None when a
\* lookup fails with a caught error
GetOldHighlightInfo(d, page, page_id) ==
  LET on_page == Index(d["highlight"], page)
      got == IF on_page.err # "" THEN on_page ELSE Index(on_page.val, page_id)
      high_data == got.val
      text == Unescape(DGet(high_data, "text", <<>>))
      bookmarks == Get(d, "bookmarks", Map(<<>>))
      keys == Iter(bookmarks)
      comment == IF keys.err # "" THEN keys
                 ELSE FindComment(bookmarks, keys.val, text)
      failed == IF got.err # "" THEN got.err
                ELSE IF ~HasGet(high_data) THEN "AttributeError"
                ELSE comment.err
  IN IF failed = ""
       THEN Ok(Dict([text |-> text,
                     highlight |-> text,
                     chapter |-> DGet(high_data, "chapter", <<>>),
                     comment |-> comment.val,
                     date |-> DGet(high_data, "datetime", <<>>),
                     page |-> <<ToString(page.items[1])>>,
                     page_id |-> page_id]))
     ELSE IF Caught(failed) THEN Ok(PyNone)
     ELSE Err(failed)

\* Lines 167-171: the loop over the annotations, from the list acc so far
RECURSIVE NewLoop(_, _, _, _)
NewLoop(d, keys, show, acc) ==
  IF Len(keys) = 0 THEN Ok(acc)
  ELSE LET high_info == GetNewHighlightInfo(d, keys[1], show)
       IN IF high_info.err # "" THEN high_info
          ELSE NewLoop(d, Tail(keys), show,
                       IF high_info.val.kind = "none" THEN acc
                       ELSE Append(acc, high_info.val))

\* Lines 175-178: the loop over the highlights of one page; stop tells that
\* an error ended it
RECURSIVE OldIds(_, _, _, _)
RECURSIVE OldIdsNext(_, _, _, _, _)
OldIds(d, page, ids, acc) ==
  IF Len(ids) = 0 THEN [err |-> "", val |-> acc, stop |-> FALSE]
  ELSE OldIdsNext(d, page, ids, acc, GetOldHighlightInfo(d, page, ids[1]))

\* Lines 176-178: what the loop does with high_info, the record of ids[1]
OldIdsNext(d, page, ids, acc, high_info) ==
  IF high_info.err # ""
    THEN [err |-> high_info.err, val |-> acc, stop |-> TRUE]
    ELSE OldIds(d, page, Tail(ids),
                IF high_info.val.kind = "none" THEN acc
                ELSE Append(acc, high_info.val))

\* Line 175: the highlights of a page, in the order the loop visits them
PageIds(on_page) == IF on_page.err # "" THEN on_page ELSE Iter(on_page.val)

\* Lines 173-180: the loop over the pages inside the try; a caught error ends
\* it with the list as it stands
RECURSIVE OldLoop(_, _, _)
RECURSIVE OldLoopNext(_, _, _, _)
RECURSIVE OldPageDone(_, _, _)
OldLoop(d, pages, acc) ==
  IF Len(pages) = 0 THEN Ok(acc)
  ELSE OldLoopNext(d, pages, acc, PageIds(Index(d["highlight"], pages[1])))

\* Lines 175-180: one page, whose highlights are ids
OldLoopNext(d, pages, acc, ids) ==
  IF ids.err # "" THEN (IF Caught(ids.err) THEN Ok(acc) ELSE Err(ids.err))
  ELSE OldPageDone(d, pages, OldIds(d, pages[1], ids.val, acc))

\* Lines 173-180: after one page, done being the outcome of its inner loop
OldPageDone(d, pages, done) ==
  IF done.stop
    THEN IF Caught(done.err) THEN Ok(done.val) ELSE Err(done.err)
    ELSE OldLoop(d, Tail(pages), done.val)

\* Lines 153-182: _extract_highlights
ExtractHighlights(d, show) ==
  IF DOMAIN d = {} THEN Ok(<<>>)
  ELSE LET annotations == Get(d, "annotations", PyNone)
       IN IF annotations.kind # "none"
            THEN LET keys == Iter(annotations)
                 IN IF keys.err # "" THEN keys
                    ELSE NewLoop(d, keys.val, show, <<>>)
            ELSE LET pages == Iter(Get(d, "highlight", Map(<<>>)))
                 IN IF pages.err # "" THEN Ok(<<>>)
                    ELSE OldLoop(d, pages.val, <<>>)

\* One call of _extract_highlights, from entry to its return or its error
Extract ==
  /\ xpc = "start"
  /\ LET out == ExtractHighlights(data, show_ref_pg)
     IN /\ extracted' = IF out.err = "" THEN out.val ELSE <<>>
        /\ extract_raised' = out.err
  /\ xpc' = "done"
  /\ UNCHANGED <<export, client, data, show_ref_pg>>

(* Book metadata of both shapes, well formed and with a list, a string or a
   number where a dict is expected *)

\* The sequences of at most two values of the sequence c, as a sequence
Seqs2(c) ==
  LET n == Len(c)
  IN <<<<>>>> \o [j \in 1..n |-> <<c[j]>>]
       \o [j \in 1..(n * n) |-> <<c[((j - 1) \div n) + 1], c[((j - 1) % n) + 1]>>]

\* The dict that holds the values of es under the keys first, first + 1, ...
Keyed(es, first) ==
  Map([j \in 1..Len(es) |-> [key |-> first + j - 1, val |-> es[j]]])

\* A highlight and a bookmark of the newer shape
NewHighlight ==
  Dict([pos0 |-> <<"/body/p[1]">>, text |-> <<"Quote", ESCNL, "more">>,
        note |-> Remark, chapter |-> <<"Ch1">>, datetime |-> <<"2020">>,
        pageno |-> <<"12">>, pageref |-> <<"7">>])

NewBookmark == Dict([text |-> <<"Mark">>, pageno |-> <<"13">>])

NewEntries == <<NewHighlight, NewBookmark, Str(<<"x">>)>>

NewBooks ==
  LET ess == Seqs2(NewEntries)
  IN [j \in 1..Len(ess) |-> [annotations |-> Keyed(ess[j], 1)]]
       \o [j \in 1..Len(ess) |-> [annotations |-> List(ess[j])]]
       \o <<[annotations |-> Num(5)]>>

\* A highlight of the older shape, and the bookmarks that hold its comment
\* or another highlight's
OldHighlight ==
  Dict([text |-> Quote, chapter |-> <<"Ch1">>, datetime |-> <<"2020">>])

OwnBookmark == Dict([notes |-> Quote, text |-> <<PAGEPFX, "Remark", STAMP>>])

OtherBookmark == Dict([notes |-> <<"Other">>, text |-> <<"zzz">>])

\* What a page of the older shape may hold
PageValues ==
  <<Keyed(<<OldHighlight>>, 1), Keyed(<<Str(<<"x">>), OldHighlight>>, 1),
    Num(5), Str(<<"a", "b">>)>>

\* What the highlight key may hold
HighlightValues ==
  LET pss == Seqs2(PageValues)
  IN [j \in 1..Len(pss) |-> Keyed(pss[j], 12)]
       \o <<Num(5), List(<<OldHighlight>>), OldHighlight>>

\* What the bookmarks key may hold
BookmarkValues ==
  <<Keyed(<<OwnBookmark>>, 1), Keyed(<<OtherBookmark, OwnBookmark>>, 1),
    Keyed(<<Str(<<"x">>)>>, 1), List(<<OwnBookmark>>), Num(5)>>

OldBooks ==
  LET hs == HighlightValues
      bs == BookmarkValues
  IN [j \in 1..Len(hs) |-> [highlight |-> hs[j]]]
       \o [j \in 1..(Len(hs) * Len(bs)) |->
             [highlight |-> hs[((j - 1) \div Len(bs)) + 1],
              bookmarks |-> bs[((j - 1) % Len(bs)) + 1]]]

\* Every book, with the empty metadata and one that has neither key
Books == <<<<>>, [title |-> Str(<<"Book">>)]>> \o NewBooks \o OldBooks

InitNorm ==
  /\ \E j \in 1..Len(Books) : data = Books[j]
  /\ show_ref_pg \in BOOLEAN
  /\ xpc = "start"
  /\ extracted = <<>>
  /\ extract_raised = ""
  /\ highlights = <<>>
  /\ field_mapping = DefaultMapping
  /\ model_fields = <<>>
  /\ allow_duplicate = FALSE
  /\ front_content = "comment"
  /\ progress_callback = FALSE
  /\ Entered
  /\ Constructed
  /\ RemoteAtRest

NextNorm == Extract

SpecNorm == InitNorm /\ [][NextNorm]_vars

----------------------------------------------------------------------------
(* Properties *)

Last(seq) == seq[Len(seq)]

\* The field query of line 718 has been answered
Fetched == calls # <<>> /\ calls[1].ok

\* The call returned its (success_count, fail_count, errors) triple
Returned == pc = "done" /\ raised = ""

\* C1: once the field query is answered, the no-fields error is raised if and
\* only if the live field list is empty, and for a non-empty field list the
\* resolved mapping gives both highlight and comment a non-empty field name.
C1_ResolvedTargets ==
  Fetched =>
    /\ (raised = NoFieldsError) <=> (model_fields = <<>>)
    /\ model_fields # <<>> =>
         /\ Truthy(MapGet(remapped_mapping, "highlight"))
         /\ Truthy(MapGet(remapped_mapping, "comment"))

\* C1 witness: a field list without Front or Back, a declared mapping that
\* names neither highlight nor comment, and both resolved to existing fields.
C1_Witness ==
  /\ Fetched
  /\ model_fields = <<"Text", "Extra", "More">>
  /\ Sources(field_mapping) \cap {"highlight", "comment"} = {}
  /\ MapGet(remapped_mapping, "highlight") = "Text"
  /\ MapGet(remapped_mapping, "comment") = "Extra"

\* Positions of the resolved mapping that target field f with a non-empty
\* value of record hd
Writers(rm, hd, f) ==
  {k \in 1..Len(rm) : rm[k].target = f /\ Get(hd, rm[k].source, <<>>) # <<>>}

\* seq holds part as a contiguous run
Contains(seq, part) ==
  \E p \in 0..(Len(seq) - Len(part)) : SubSeq(seq, p + 1, p + Len(part)) = part

\* C3: merge-on-collision. When two keys of the resolved mapping target one
\* field of the schema and the record has non-empty values A and B for them,
\* A's key first in mapping order and no other value written between them,
\* the field of the note holds A, the separator, then B: neither value is
\* overwritten or lost. (Stated as containment, which the claim's equality
\* implies.)
C3_MergeOnCollision ==
  \A n \in 1..Len(notes) :
    LET hd == highlights[notes[n].src]
    IN \A f \in Range(available_fields) :
         \A a, b \in Writers(remapped_mapping, hd, f) :
           (a < b /\ \A c \in Writers(remapped_mapping, hd, f) : c <= a \/ c >= b)
             => Contains(notes[n].fields[f],
                         Get(hd, remapped_mapping[a].source, <<>>) \o <<SEP>> \o
                         Get(hd, remapped_mapping[b].source, <<>>))

\* The mapping of the scenario of C4
C4_Mapping ==
  <<Entry("highlight", "Front"), Entry("comment", "Back"),
    Entry("page", "Back"), Entry("chapter", "Back")>>

\* C4: fields [Front, Back], mapping highlight->Front, comment->Back,
\* page->Back, chapter->Back, record with highlight text "Quote", no comment,
\* page "12", chapter "Ch1": the note is Front = "Quote",
\* Back = "Quote" sep "12" sep "Ch1".
C4_Scenario ==
  ( /\ Fetched
    /\ model_fields = BasicFields
    /\ field_mapping = C4_Mapping
    /\ Len(highlights) = 1
    /\ base_highlight(highlights[1]) = Quote
    /\ Get(highlights[1], "comment", <<>>) = <<>>
    /\ Get(highlights[1], "page", <<>>) = <<"12">>
    /\ Get(highlights[1], "chapter", <<>>) = <<"Ch1">> ) =>
      /\ Len(notes) = 1
      /\ notes[1].fields =
           [Front |-> Quote,
            Back |-> Quote \o <<SEP, "12", SEP, "Ch1">>]

\* The calls that carry notes: the eligibility and submit calls
NoteCalls ==
  {k \in 1..Len(calls) : calls[k].action \in {"canAddNotes", "addNotes"}}

\* The source positions of the records a call carries
SrcOf(k) == {calls[k].notes[j].src : j \in 1..Len(calls[k].notes)}

\* The input records whose highlight text and comment are both the empty
\* string
LiterallyEmpty ==
  {n \in 1..Len(highlights) :
     /\ Get(highlights[n], "highlight", Get(highlights[n], "text", <<>>)) = <<>>
     /\ Get(highlights[n], "comment", <<>>) = <<>>}

\* The input records whose highlight text and comment are both empty once
\* surrounding whitespace is trimmed
EmptyRecords == {n \in 1..Len(highlights) : NoContent(highlights[n])}

\* C2 as stated: a record whose highlight text and comment are both empty
\* is in no eligibility or submit call, and the skipped-empty count is
\* exactly the number of records whose two values are the empty string.
C2_LiteralCount ==
  LET empty == LiterallyEmpty
  IN /\ \A k \in NoteCalls : SrcOf(k) \cap empty = {}
     /\ (Fetched /\ model_fields # <<>>) => skipped_empty = Cardinality(empty)

\* C2: a record whose highlight text and comment are both empty or
\* whitespace only is in no eligibility or submit call, and the
\* skipped-empty count is exactly the number of such records of the input.
C2_EmptyNeverSubmitted ==
  LET empty == EmptyRecords
  IN /\ \A k \in NoteCalls : SrcOf(k) \cap empty = {}
     /\ (Fetched /\ model_fields # <<>>) => skipped_empty = Cardinality(empty)

\* C2 witness: an export returned with one record of two, a whitespace-only
\* one, dropped as empty and the other submitted.
C2_Witness ==
  /\ Returned
  /\ Len(highlights) = 2
  /\ Cardinality(EmptyRecords) = 1
  /\ LiterallyEmpty = {}
  /\ skipped_empty = 1
  /\ \E k \in NoteCalls : calls[k].action = "addNotes" /\ Len(calls[k].notes) = 1

\* The done values of the reports rise from one report to the next, every
\* total is the number of input records, and no report but the last has
\* done = total
ReportsRise ==
  /\ \A k \in 1..Len(reports) : reports[k].total = Len(highlights)
  /\ \A k \in 1..(Len(reports) - 1) :
       /\ reports[k].done <= reports[k + 1].done
       /\ reports[k].done # reports[k].total

\* C5 as stated: for every export past the no-fields precondition the done
\* values are non-decreasing, total is the number of input records, and
\* done = total exactly once, in the last callback.
C5_EveryExport ==
  /\ ReportsRise
  /\ (Returned /\ progress_callback) =>
       reports # <<>> /\ Last(reports).done = Len(highlights)

\* C5: for every export of at least one record past the no-fields
\* precondition, whatever the eligibility results, null result slots and
\* transport failures, the done values passed to the callback are
\* non-decreasing, total is always the number of input records, and
\* done = total exactly once, in the last callback.
C5_Progress ==
  /\ ReportsRise
  /\ (Returned /\ progress_callback /\ highlights # <<>>) =>
       reports # <<>> /\ Last(reports).done = Len(highlights)

\* C5 witness: an export of two batches returned with every submit call
\* failed, the last callback alone reporting done = total.
C5_Witness ==
  /\ Returned
  /\ progress_callback
  /\ Len(reports) >= 2
  /\ Last(reports).done = Len(highlights)
  /\ \A k \in 1..(Len(reports) - 1) : reports[k].done < Len(highlights)
  /\ Cardinality({k \in NoteCalls : calls[k].action = "addNotes"}) = 2
  /\ \A k \in NoteCalls : calls[k].action = "addNotes" => ~calls[k].ok

\* The reports made by the batch loop, those of the pre-pass left out
BatchReports == SelectSeq(reports, LAMBDA r : r.phase = "batch")

\* Number of batches of batch_size that n notes make
Batches(n) == (n + batch_size - 1) \div batch_size

\* The batch-phase reports are non-decreasing
BatchReportsRise ==
  \A k \in 1..(Len(BatchReports) - 1) :
    BatchReports[k].done <= BatchReports[k + 1].done

\* C6 as stated: for an export of N records the batch-phase reports are
\* non-decreasing, end at N and number exactly ceil(N / 50).
C6_InputBatches ==
  /\ BatchReportsRise
  /\ (Returned /\ progress_callback) =>
       /\ Len(BatchReports) = Batches(Len(highlights))
       /\ BatchReports # <<>> => Last(BatchReports).done = Len(highlights)

\* C6: for an export of N records of which M are not dropped as empty, the
\* batch-phase reports are non-decreasing, number exactly ceil(M / 50), one
\* per batch of the M notes, and when M > 0 they end at N.
C6_NoteBatches ==
  /\ BatchReportsRise
  /\ (Returned /\ progress_callback) =>
       /\ Len(BatchReports) = Batches(Len(highlights) - skipped_empty)
       /\ Len(highlights) > skipped_empty =>
            Last(BatchReports).done = Len(highlights)

\* C6 witness: an export of more than one batch of input records returned
\* with a single batch-phase report, the other records dropped as empty.
C6_Witness ==
  /\ Returned
  /\ progress_callback
  /\ Len(highlights) > batch_size
  /\ skipped_empty > 0
  /\ Len(BatchReports) = 1
  /\ Last(BatchReports).done = Len(highlights)

\* A duplicate-skipped diagnostic that names the book, chapter and page of
\* the input record hd
NamesRecord(e, hd) ==
  /\ e.kind = "Duplicate skipped"
  /\ e.book = Or(Get(hd, "book_title", <<>>), Get(hd, "title", <<>>))
  /\ e.chapter = Get(hd, "chapter", <<>>)
  /\ e.page = Get(hd, "page", <<>>)

\* The step in which an eligibility query is answered: each record flagged
\* ineligible adds one to the failure count and one duplicate-skipped
\* diagnostic naming it, and nothing else is counted
C7_QueryStep ==
  (pc = "check" /\ Len(calls') > Len(calls) /\ Last(calls').ok) =>
    LET no == Positions(Last(calls').result, FALSE)
    IN /\ Last(calls').notes = batch
       /\ Len(Last(calls').result) = Len(batch)
       /\ fail_count' = fail_count + Len(no)
       /\ success_count' = success_count
       /\ Len(errors') = Len(errors) + Len(no)
       /\ SubSeq(errors', 1, Len(errors)) = errors
       /\ \A k \in 1..Len(no) :
            NamesRecord(errors'[Len(errors) + k], highlights[batch[no[k]].src])

\* The step that follows an answered eligibility query: the submit call, made
\* unless nothing is eligible, carries exactly the records flagged eligible,
\* in their order, and the success count rises by no more than their number
C7_SubmitStep ==
  (pc = "submit" /\ ~allow_duplicate /\ Last(calls).ok) =>
    LET yes == Positions(Last(calls).result, TRUE)
    IN /\ (Len(calls') > Len(calls)) <=> (yes # <<>>)
       /\ Len(calls') > Len(calls) =>
            /\ Last(calls').action = "addNotes"
            /\ Last(calls').notes = Pick(batch, yes)
       /\ success_count' >= success_count
       /\ success_count' - success_count <= Len(yes)

\* C7: with duplicates disallowed and an eligibility query that succeeds for
\* a batch, the records submitted for the batch are exactly those flagged
\* eligible, in their original order; each ineligible record adds exactly one
\* to the failure count and one duplicate-skipped diagnostic naming its book,
\* chapter and page; and the batch adds at most the number of eligible
\* records to the success count.
C7_EligibilityFilter == [][C7_QueryStep /\ C7_SubmitStep]_vars

\* C7 witness: the batch of three answered [true, false, true]: two records
\* submitted, one duplicate failure with its diagnostic, success count 2.
C7_Witness ==
  /\ Returned
  /\ ~allow_duplicate
  /\ Len(notes) = 3
  /\ Len(calls) = 3
  /\ calls[2].action = "canAddNotes" /\ calls[2].result = <<TRUE, FALSE, TRUE>>
  /\ calls[3].action = "addNotes" /\ calls[3].notes = <<notes[1], notes[3]>>
  /\ calls[3].result = <<"id", "id">>
  /\ success_count = 2
  /\ fail_count = 1
  /\ Len(errors) = 1 /\ NamesRecord(errors[1], highlights[2])

BatchStarts == {k * batch_size : k \in 0..(Batches(Len(notes)) - 1)}

\* The batch starting at index start was attempted: its eligibility query
\* was made, or its submit call when duplicates are allowed
Attempted(start) ==
  \E k \in NoteCalls :
    /\ calls[k].notes = BatchAt(notes, start)
    /\ calls[k].action = IF allow_duplicate THEN "addNotes" ELSE "canAddNotes"

\* C9: once the field list is fetched and non-empty, no eligibility query
\* failure, submit transport failure or null result slot aborts the export:
\* nothing is raised to the caller, the call always has a next step until it
\* returns, and when it returns every batch has been attempted.
C9_NoAbort ==
  (Fetched /\ model_fields # <<>>) =>
    /\ raised = ""
    /\ pc # "done" => ENABLED Next
    /\ pc = "done" =>
         /\ \A start \in BatchStarts : Attempted(start)
         /\ processed = Len(highlights)

\* C9 witness: an export of two batches returned after the eligibility query
\* and the submit call of the first batch both failed, the second batch
\* submitted with a null result slot.
C9_Witness ==
  /\ Returned
  /\ Len(calls) = 5
  /\ calls[2].action = "canAddNotes" /\ ~calls[2].ok
  /\ calls[3].action = "addNotes" /\ ~calls[3].ok
  /\ calls[4].action = "canAddNotes" /\ calls[4].notes = BatchAt(notes, batch_size)
  /\ calls[5].action = "addNotes" /\ calls[5].ok
  /\ None \in Range(calls[5].result)
  /\ fail_count >= batch_size + 1

\* C10: with duplicates disallowed, when the eligibility query of a batch
\* fails the whole batch is submitted unfiltered in one submit call, the
\* failed query adds nothing to the failure count and no diagnostic, and no
\* record of the batch gets a duplicate-skipped diagnostic.
C10_Degrade ==
  \A k \in NoteCalls :
    (calls[k].action = "canAddNotes" /\ ~calls[k].ok) =>
      /\ k = Len(calls) =>
           /\ pc = "submit"
           /\ calls[k].notes = batch
           /\ eligible_batch = batch
           /\ fail_count = mark.fail
           /\ Len(errors) = mark.errors
      /\ k < Len(calls) =>
           /\ calls[k + 1].action = "addNotes"
           /\ calls[k + 1].notes = calls[k].notes
      /\ \A l \in NoteCalls \ {k, k + 1} : SrcOf(l) \cap SrcOf(k) = {}
      /\ \A n \in 1..Len(errors) :
           errors[n].kind = "Duplicate skipped" =>
             \A j \in 1..Len(calls[k].notes) :
               ~NamesRecord(errors[n], highlights[calls[k].notes[j].src])

\* C10 witness: the eligibility query of a batch of two failed, and both
\* records were submitted in the one submit call that followed, with no
\* failure counted and no diagnostic.
C10_Witness ==
  /\ Returned
  /\ ~allow_duplicate
  /\ Len(notes) = 2
  /\ Len(calls) = 3
  /\ calls[2].action = "canAddNotes" /\ ~calls[2].ok
  /\ calls[3].action = "addNotes" /\ calls[3].notes = notes /\ calls[3].ok
  /\ success_count = 2
  /\ fail_count = 0
  /\ errors = <<>>

\* C11: when the live field list is empty the call fails before any record
\* is processed: the no-fields error is raised with the field query as the
\* only remote call, no eligibility or submit call, no progress callback and
\* no record materialized or counted.
C11_NoFieldsFirst ==
  (Fetched /\ model_fields = <<>>) =>
    /\ pc = "done"
    /\ raised = NoFieldsError
    /\ Len(calls) = 1
    /\ NoteCalls = {}
    /\ reports = <<>>
    /\ notes = <<>>
    /\ processed = 0 /\ skipped_empty = 0 /\ fail_count = 0 /\ success_count = 0

\* C11 witness: two input records, one of them empty, and a callback, against
\* an empty field list: the call has raised the no-fields error.
C11_Witness ==
  /\ model_fields = <<>>
  /\ Len(highlights) = 2
  /\ EmptyRecords # {}
  /\ progress_callback
  /\ raised = NoFieldsError
  /\ pc = "done"

\* The requests made by the operation numbered k
RequestsOf(k) == SelectSeq(requests, LAMBDA r : r.op = k)

\* The actions requested by the operation numbered k
ActionsOf(k) == {RequestsOf(k)[j].action : j \in 1..Len(RequestsOf(k))}

\* Operations k and k + 1 are two calls of ensure_makhfouz_model in a row, the
\* second started against a note type that exists with every desired field
TwiceInARow(k) ==
  /\ k + 1 <= Len(ops)
  /\ ops[k].name = "ensure_makhfouz_model"
  /\ ops[k + 1].name = "ensure_makhfouz_model"
  /\ ops[k + 1].conforming

\* C12: when ensure_makhfouz_model is called twice in a row and the note type
\* exists with all desired fields, the second call issues no field-add
\* request and its list of missing fields is empty.
C12_Idempotent ==
  \A k \in 1..Len(ops) :
    TwiceInARow(k) =>
      /\ "modelFieldAdd" \notin ActionsOf(k + 1)
      /\ k + 1 = Len(ops) => missing_fields = <<>>

\* C12 witness: a first call that added the missing fields, then a second call
\* that fetched the field list, added nothing and went on to the templates.
C12_Witness ==
  /\ cpc = "idle"
  /\ Len(ops) = 2
  /\ TwiceInARow(1)
  /\ ~ops[1].conforming
  /\ "modelFieldAdd" \in ActionsOf(1)
  /\ ActionsOf(2) =
       {"modelFieldNames", "updateModelStyling", "updateModelTemplates"}
  /\ \A j \in 1..Len(RequestsOf(2)) : RequestsOf(2)[j].ok

\* The operation numbered k is a call of ensure_makhfouz_model
IsEnsure(k) == ops[k].name = "ensure_makhfouz_model"

\* Every request of the operation numbered k failed
AllFailed(k) == \A j \in 1..Len(RequestsOf(k)) : ~RequestsOf(k)[j].ok

\* C13: ensure_makhfouz_model returns normally whatever remote calls fail or
\* succeed (name listing, field listing, each field add, style update,
\* template update, creation): no call of it raises to its caller, and a call
\* that has started always has a next step until it returns.
C13_ReturnsNormally ==
  /\ \A k \in 1..Len(ops) : IsEnsure(k) => ~ops[k].raised
  /\ cpc # "idle" => ENABLED NextClient

\* C13 witness: two calls returned; in the first the name listing and the
\* creation both failed, in the second the names and fields were listed, a
\* field add failed and the style update failed.
C13_Witness ==
  /\ cpc = "idle"
  /\ Len(ops) = 2
  /\ IsEnsure(1) /\ IsEnsure(2)
  /\ ActionsOf(1) = {"modelNames", "createModel"} /\ AllFailed(1)
  /\ ActionsOf(2) = {"modelNames", "modelFieldNames", "modelFieldAdd",
                     "updateModelStyling"}
  /\ \E j \in 1..Len(RequestsOf(2)) :
       RequestsOf(2)[j].action = "modelFieldAdd" /\ ~RequestsOf(2)[j].ok
  /\ ~Last(RequestsOf(2)).ok
  /\ ~ops[1].raised /\ ~ops[2].raised

\* The remote actions ensure_makhfouz_model may issue
ReconcilerActions ==
  {"modelNames", "modelFieldNames", "modelFieldAdd", "updateModelStyling",
   "updateModelTemplates", "createModel"}

\* The fields the operation numbered k asked to add, in request order
AddedBy(k) ==
  LET adds == SelectSeq(RequestsOf(k), LAMBDA r : r.action = "modelFieldAdd")
  IN [j \in 1..Len(adds) |-> adds[j].param]

\* C14: in every run of ensure_makhfouz_model, whatever the remote answers,
\* the only requests are name listing, field listing, field add, style
\* update, template update and creation (no field removal, note deletion or
\* deck deletion), and a field add is requested only for a desired field
\* absent from the fetched field list.
C14_NonDestructive ==
  /\ \A k \in 1..Len(ops) : IsEnsure(k) => ActionsOf(k) \subseteq ReconcilerActions
  /\ (ops # <<>> /\ cpc # "idle") =>
       /\ IsEnsure(Len(ops))
       /\ Range(AddedBy(Len(ops))) \subseteq
            Range(MakhfouzFields) \ Range(existing_fields)
       /\ ("modelFieldAdd" \in ActionsOf(Len(ops))) =>
            "modelFieldNames" \in ActionsOf(Len(ops))

\* C14 witness: a run against a note type two fields short, still under way
\* after asking to add exactly those two fields, the first add failed.
C14_Witness ==
  /\ cpc = "style"
  /\ Len(ops) = 1
  /\ existing_fields = SubSeq(MakhfouzFields, 1, 6)
  /\ AddedBy(1) = <<"Date", "UID">>
  /\ ~RequestsOf(1)[3].ok
  /\ RequestsOf(1)[4].ok

\* The listing operation whose list the mutating operation named name
\* belongs to
ListingOf(name) ==
  IF name \in {"create_deck", "delete_decks"} THEN "get_deck_names"
  ELSE "get_model_names"

\* Operation l is the first listing call after the mutating operation k that
\* succeeded, for the list k belongs to, and it does not force a refresh
NextListing(k, l, mutations) ==
  /\ k < l
  /\ ops[k].name \in mutations
  /\ ~ops[k].raised
  /\ ops[l].name = ListingOf(ops[k].name)
  /\ ~ops[l].force
  /\ \A m \in (k + 1)..(l - 1) : ops[m].name # ops[l].name

\* A successful modelNames request was made before operation l
ModelNamesCachedBefore(l) ==
  \E j \in 1..Len(requests) :
    /\ requests[j].action = "modelNames"
    /\ requests[j].ok
    /\ requests[j].op < l

\* C15 as stated: after a deck creation, deck deletion or field addition
\* succeeds, the next listing call without force_refresh (of the deck names
\* for the deck operations, of the note type names for the field addition)
\* re-fetches from the remote.
C15_EveryMutation ==
  \A k, l \in 1..Len(ops) :
    NextListing(k, l, {"create_deck", "delete_decks", "add_field_to_model"})
      => ops[l].fetched

\* C15: the cached deck-name list is invalidated by deck creation and deck
\* deletion: after either succeeds the next get_deck_names call without
\* force_refresh re-fetches. The cached note type names are invalidated by
\* no operation: get_model_names without force_refresh re-fetches exactly
\* when no earlier request for the names succeeded, field addition or not.
C15_DeckMutations ==
  /\ \A k, l \in 1..Len(ops) :
       NextListing(k, l, {"create_deck", "delete_decks"}) => ops[l].fetched
  /\ \A l \in 1..Len(ops) :
       (ops[l].name = "get_model_names" /\ ~ops[l].force) =>
         (ops[l].fetched <=> ~ModelNamesCachedBefore(l))

\* C15 witness: the deck names are fetched and cached, a deck is created, and
\* the next get_deck_names without force_refresh fetches again.
C15_Witness ==
  /\ Len(ops) = 3
  /\ ops[1].name = "get_deck_names" /\ ops[1].fetched /\ ~ops[1].raised
  /\ ops[2].name = "create_deck" /\ ~ops[2].raised
  /\ NextListing(2, 3, {"create_deck"})
  /\ ops[3].fetched /\ ~ops[3].raised
  /\ cached_decks = <<remote_decks>>
  /\ DeckNames \subseteq remote_decks

\* The number of the batch (from 0) that the call numbered k belongs to
BatchIdx(k) ==
  LET p == CHOOSE q \in 1..Len(notes) : notes[q] = calls[k].notes[1]
  IN (p - 1) \div batch_size

\* C16: batches are processed in sequence without retries: per batch at most
\* one eligibility query (none when duplicates are allowed), then at most
\* one submit call, then exactly one progress callback; no call for a batch
\* is made before the callback of the batch before it, and no call is made
\* twice.
C16_InSequence ==
  /\ \A k, l \in NoteCalls :
       k < l =>
         /\ BatchIdx(k) <= BatchIdx(l)
         /\ BatchIdx(k) = BatchIdx(l) =>
              calls[k].action = "canAddNotes" /\ calls[l].action = "addNotes"
  /\ \A k \in NoteCalls :
       /\ calls[k].action = "canAddNotes" => ~allow_duplicate
       /\ SrcOf(k) \subseteq
            {notes[q].src : q \in (BatchIdx(k) * batch_size + 1)..
                                  Min((BatchIdx(k) + 1) * batch_size, Len(notes))}
  /\ (progress_callback /\ NoteCalls # {}) =>
       LET b == BatchIdx(Len(calls))
       IN /\ Len(BatchReports) \in {b, b + 1}
          /\ (Len(BatchReports) = b) <=> (i = b * batch_size)
          /\ \A j \in 1..Len(BatchReports) :
               BatchReports[j].done =
                 skipped_empty + Min(j * batch_size, Len(notes))

\* C16 witness: two batches with duplicates disallowed: query, failed submit,
\* callback, then query, submit, callback, and the call returned.
C16_Witness ==
  /\ Returned
  /\ progress_callback
  /\ Len(calls) = 5
  /\ <<calls[2].action, calls[3].action, calls[4].action, calls[5].action>> =
       <<"canAddNotes", "addNotes", "canAddNotes", "addNotes">>
  /\ ~calls[3].ok
  /\ <<BatchIdx(2), BatchIdx(3), BatchIdx(4), BatchIdx(5)>> = <<0, 0, 1, 1>>
  /\ Len(BatchReports) = 2

\* The positions of the diagnostics that are skipped-empty summary lines
Summaries == {n \in 1..Len(errors) : errors[n].kind = "Skipped empty"}

\* C17: on return the number of skipped-empty records has been added to the
\* failure count exactly once; when it is positive exactly one summary
\* diagnostic stating it is present and is the last diagnostic; when it is
\* zero there is no summary line. Before the return there is none either.
C17_FoldSkipped ==
  /\ Returned =>
       /\ fail_count = mark.fail + skipped_empty
       /\ skipped_empty > 0 =>
            /\ Summaries = {Len(errors)}
            /\ Last(errors) = SkippedDiag(skipped_empty)
            /\ Len(errors) = mark.errors + 1
       /\ skipped_empty = 0 => Summaries = {} /\ Len(errors) = mark.errors
  /\ pc # "done" => Summaries = {}

\* C17 witness: an export returned with one record skipped as empty and one
\* rejected as duplicate: two failures, the summary line last of two
\* diagnostics.
C17_Witness ==
  /\ Returned
  /\ Len(highlights) = 2
  /\ skipped_empty = 1
  /\ fail_count = 2
  /\ Len(errors) = 2
  /\ errors[1].kind = "Duplicate skipped"
  /\ errors[2] = SkippedDiag(1)

\* The input records that became notes
Materialized == {notes[n].src : n \in 1..Len(notes)}

\* The input records with highlight text or a comment that is not the empty
\* string
LiteralContent == (1..Len(highlights)) \ LiterallyEmpty

\* The input records with highlight text or a comment left once whitespace
\* is trimmed
WithContent == (1..Len(highlights)) \ EmptyRecords

\* Every note has at least one non-blank field
NoBlankNote == \A n \in 1..Len(notes) : ~AllBlank(notes[n].fields)

\* C18 as stated: every note has a non-blank field, and every record whose
\* highlight text or comment is not the empty string becomes a note.
C18_LiteralContentKept ==
  (Fetched /\ model_fields # <<>>) =>
    /\ NoBlankNote
    /\ LiteralContent \subseteq Materialized

\* C18: every note handed to the eligibility and submit calls has at least
\* one non-blank field, and every record whose highlight text or comment is
\* non-blank becomes a note, for every resolved mapping and front-content
\* policy: the final guard drops none of them.
C18_ContentKept ==
  (Fetched /\ model_fields # <<>>) =>
    /\ NoBlankNote
    /\ Materialized = WithContent
    /\ skipped_empty = Cardinality(EmptyRecords)

\* C18 witness: a record with a comment and no highlight text, a field list
\* without Front or Back and a mapping that leaves comment undeclared: the
\* record became a note with a non-blank field.
C18_Witness ==
  /\ Fetched
  /\ Len(notes) = 1
  /\ base_highlight(highlights[1]) = <<>>
  /\ base_comment(highlights[1]) = Remark
  /\ "comment" \notin Sources(field_mapping)
  /\ Range(model_fields) \cap {"Front", "Back"} = {}
  /\ ~AllBlank(notes[1].fields)

\* The record that carries under "highlight" what hd carries under "text", and
\* is otherwise identical
UnderHighlight(hd) ==
  [k \in ((DOMAIN hd) \ {"text"}) \cup {"highlight"} |->
     IF k = "highlight" THEN hd["text"] ELSE hd[k]]

\* The notes of records whose highlight text is under "text" alone
TextOnlyNotes ==
  {n \in 1..Len(notes) :
     LET hd == highlights[notes[n].src]
     IN "text" \in DOMAIN hd /\ "highlight" \notin DOMAIN hd}

\* C19: "highlight" is an alias for "text". For every resolved mapping, the
\* note of a record that carries its highlight text only under "text" has the
\* payload of the otherwise identical record that carries it under
\* "highlight".
C19_TextAlias ==
  \A n \in TextOnlyNotes :
    notes[n].fields =
      Payload(UnderHighlight(highlights[notes[n].src]), remapped_mapping,
              available_fields, front_content)

\* C20: outcome accounting is conservative. On every normal return, whatever
\* the mix of skipped-empty records, duplicates, null result slots and failed
\* submit calls, success count plus failure count is the number of input
\* records.
C20_Conservation ==
  Returned => success_count + fail_count = Len(highlights)

\* The field the claim gives a declared entry against the field list af
ExpectedTarget(entry, af) ==
  LET has(f) == f \in Range(af)
  IN IF has(entry.target) THEN entry.target
     ELSE IF entry.source = "highlight"
       THEN (IF has("Front") THEN "Front" ELSE af[1])
     ELSE IF entry.source = "comment"
       THEN (IF has("Back") THEN "Back"
             ELSE IF has("Front") THEN "Front" ELSE af[1])
     ELSE (IF has("Back") THEN "Back"
           ELSE IF has("Front") THEN "Front" ELSE af[Len(af)])

\* C21: resolution of declared entries. A declared entry whose field is in the
\* live field list is kept; otherwise it is replaced by the first existing
\* candidate of its key: Front then the first field for highlight; Back, Front
\* then the first field for comment; Back, Front then the last field for
\* every other key.
C21_DeclaredEntries ==
  (Fetched /\ model_fields # <<>>) =>
    \A k \in 1..Len(field_mapping) :
      MapGet(remapped_mapping, field_mapping[k].source) =
        ExpectedTarget(field_mapping[k], available_fields)

\* C21 witness: a page entry declared on a field the schema lacks, in a schema
\* of several fields without Front or Back, resolved to the last field, with
\* a highlight entry that was kept.
C21_Witness ==
  /\ Fetched
  /\ Len(available_fields) = 3
  /\ Range(available_fields) \cap {"Front", "Back"} = {}
  /\ \E k \in 1..Len(field_mapping) :
       /\ field_mapping[k].source = "page"
       /\ field_mapping[k].target = "Front"
  /\ MapGet(field_mapping, "highlight") = "Extra"
  /\ MapGet(remapped_mapping, "highlight") = "Extra"
  /\ MapGet(remapped_mapping, "page") = available_fields[3]

\* The field the claim gives comment when the declared mapping has no comment
\* entry: Back, else Front, else the second field, or the first of a schema of
\* one field
ForcedComment(af) ==
  IF "Back" \in Range(af) THEN "Back"
  ELSE IF "Front" \in Range(af) THEN "Front"
  ELSE IF Len(af) > 1 THEN af[2] ELSE af[1]

\* Forced placement of comment as the claim states it
CommentForced ==
  "comment" \notin Sources(field_mapping) =>
    MapGet(remapped_mapping, "comment") = ForcedComment(available_fields)

\* C22 as stated: a declared mapping without a highlight entry resolves
\* highlight to the first available field, and one without a comment entry
\* resolves comment to Back, else Front, else the second field (the first of
\* a schema of one field).
C22_ForcedFirstField ==
  (Fetched /\ model_fields # <<>>) =>
    /\ "highlight" \notin Sources(field_mapping) =>
         MapGet(remapped_mapping, "highlight") = available_fields[1]
    /\ CommentForced

\* C22: a declared mapping without a highlight entry resolves highlight to
\* Front if the schema has it, else to the first available field; one without
\* a comment entry resolves comment to Back, else Front, else the second
\* field (the first of a schema of one field).
C22_Forced ==
  (Fetched /\ model_fields # <<>>) =>
    /\ "highlight" \notin Sources(field_mapping) =>
         MapGet(remapped_mapping, "highlight") =
           (IF "Front" \in Range(available_fields)
              THEN "Front" ELSE available_fields[1])
    /\ CommentForced

\* C22 witness: a declared mapping that names neither highlight nor comment,
\* resolved against a schema whose second field is Front: both keys are
\* forced onto Front.
C22_Witness ==
  /\ Fetched
  /\ Sources(field_mapping) \cap {"highlight", "comment"} = {}
  /\ available_fields = <<"Extra", "Front">>
  /\ MapGet(remapped_mapping, "highlight") = "Front"
  /\ MapGet(remapped_mapping, "comment") = "Front"

\* C23: every note has as its field names exactly the live field list of the
\* schema: materialization introduces no field name the schema lacks, for
\* every resolved mapping and both front-content policies, also for schemas
\* without a field named Front or Back.
C23_SchemaFieldsOnly ==
  \A n \in 1..Len(notes) :
    DOMAIN notes[n].fields = Range(model_fields)

\* A failed-to-add diagnostic that names the book, chapter and page of the
\* input record hd
NamesFailed(e, hd) ==
  /\ e.kind = "Failed to add note"
  /\ e.book = Or(Get(hd, "book_title", <<>>), Get(hd, "title", <<>>))
  /\ e.chapter = Get(hd, "chapter", <<>>)
  /\ e.page = Get(hd, "page", <<>>)

\* C24: for every submit call that returns, the success count rises by the
\* number of non-null result slots, and each null slot adds exactly one to the
\* failure count and exactly one diagnostic, which carries the book, chapter
\* and page of the record at the slot's position in the submitted subset.
C24_ResultSlots ==
  [][(pc = "submit" /\ Len(calls') > Len(calls) /\ Last(calls').ok) =>
       LET sent == Last(calls').notes
           nulls == Positions(Last(calls').result, None)
       IN /\ Len(Last(calls').result) = Len(sent)
          /\ success_count' = success_count + (Len(sent) - Len(nulls))
          /\ fail_count' = fail_count + Len(nulls)
          /\ Len(errors') = Len(errors) + Len(nulls)
          /\ SubSeq(errors', 1, Len(errors)) = errors
          /\ \A k \in 1..Len(nulls) :
               NamesFailed(errors'[Len(errors) + k],
                           highlights[sent[nulls[k]].src])]_vars

\* C24 witness: the batch of three with its second record rejected as a
\* duplicate and the second slot of the submit call null: one success, and
\* the last diagnostic names the third record.
C24_Witness ==
  /\ Returned
  /\ Len(notes) = 3
  /\ Len(calls) = 3
  /\ calls[2].action = "canAddNotes" /\ calls[2].result = <<TRUE, FALSE, TRUE>>
  /\ calls[3].action = "addNotes" /\ calls[3].result = <<"id", None>>
  /\ success_count = 1
  /\ fail_count = 2
  /\ Len(errors) = 2
  /\ NamesFailed(errors[2], highlights[3])
  /\ ~NamesFailed(errors[2], highlights[2])

\* The calls that open a batch, in call order: its eligibility query, or its
\* submit call when duplicates are allowed
OpeningCalls ==
  SelectSeq([k \in 1..Len(calls) |-> k],
            LAMBDA k : calls[k].action =
                         (IF allow_duplicate THEN "addNotes" ELSE "canAddNotes"))

\* The submit calls, in call order
SubmitCalls ==
  SelectSeq([k \in 1..Len(calls) |-> k], LAMBDA k : calls[k].action = "addNotes")

\* The input positions of the notes of seq rise strictly
InInputOrder(seq) ==
  \A q \in 1..(Len(seq) - 1) : seq[q].src < seq[q + 1].src

\* C25: the batches partition the materialized records. Batch k is the
\* contiguous run of materialized records 50(k-1)+1 .. 50k in input order,
\* every batch has at most 50 records and every batch but the last exactly
\* 50, and each materialized record is passed to at most one submit call,
\* never twice and never reordered.
C25_Partition ==
  /\ InInputOrder(notes)
  /\ \A j \in 1..Len(OpeningCalls) :
       LET sent == calls[OpeningCalls[j]].notes
       IN /\ sent = SubSeq(notes, batch_size * (j - 1) + 1,
                           Min(batch_size * j, Len(notes)))
          /\ Len(sent) \in 1..batch_size
          /\ Len(sent) < batch_size => batch_size * j >= Len(notes)
  /\ \A a \in 1..Len(SubmitCalls) :
       /\ InInputOrder(calls[SubmitCalls[a]].notes)
       /\ \A b \in 1..(a - 1) :
            SrcOf(SubmitCalls[a]) \cap SrcOf(SubmitCalls[b]) = {}
  /\ Returned => Len(OpeningCalls) = Batches(Len(notes))

\* C25 witness: an export of one record more than a batch, duplicates
\* allowed, returned after two submit calls: the first fifty records, then
\* the last one.
C25_Witness ==
  /\ Returned
  /\ allow_duplicate
  /\ Len(notes) = batch_size + 1
  /\ Len(calls) = 3
  /\ calls[2].notes = SubSeq(notes, 1, batch_size)
  /\ calls[3].notes = <<notes[batch_size + 1]>>

\* The declared entries, other than highlight and comment, that leave their
\* key unmapped
UnmappedEntries ==
  {k \in 1..Len(field_mapping) :
     /\ field_mapping[k].target = ""
     /\ field_mapping[k].source \notin {"highlight", "comment"}}

\* C26: a logical key other than highlight and comment that the declared
\* mapping leaves unmapped (empty field name) stays unmapped after resolution,
\* and the record's value for the key is written to no field of the note.
C26_UnmappedStays ==
  (Fetched /\ model_fields # <<>>) =>
    \A k \in UnmappedEntries :
      LET source == field_mapping[k].source
      IN /\ source \notin Sources(remapped_mapping)
         /\ \A n \in 1..Len(notes) :
              LET value == Get(highlights[notes[n].src], source, <<>>)
              IN value # <<>> =>
                   \A f \in DOMAIN notes[n].fields :
                     ~Contains(notes[n].fields[f], value)

\* The requests for action made by the operation numbered k
RequestsFor(k, action) == SelectSeq(RequestsOf(k), LAMBDA r : r.action = action)

\* The actions of the update branch of ensure_makhfouz_model
UpdateActions ==
  {"modelFieldNames", "modelFieldAdd", "updateModelStyling",
   "updateModelTemplates"}

\* C27: the two branches of ensure_makhfouz_model are exclusive. When the
\* list of note type names it obtained contains the note type, it never
\* issues a creation request, even if the field listing or every update
\* fails; when the list does not contain it, or the name fetch failed, it
\* issues exactly one creation request, with the full field list, and no
\* field-add, style-update or template-update request.
C27_ExclusiveBranches ==
  (ops # <<>> /\ IsEnsure(Len(ops))) =>
    LET k == Len(ops)
        creations == RequestsFor(k, "createModel")
    IN IF Known(models)
         THEN creations = <<>>
         ELSE /\ ActionsOf(k) \cap UpdateActions = {}
              /\ Len(creations) = (IF cpc = "idle" THEN 1 ELSE 0)
              /\ (creations # <<>> /\ creations[1].ok) =>
                   remote_fields = MakhfouzFields

\* C27 witness: a call that found the note type in the names it listed,
\* failed to list its fields and returned without a creation request, after
\* a call whose name fetch failed and which asked once for the creation.
C27_Witness ==
  /\ cpc = "idle"
  /\ Len(ops) = 2
  /\ IsEnsure(1) /\ IsEnsure(2)
  /\ Len(RequestsOf(1)) = 2
  /\ RequestsOf(1)[1].action = "modelNames" /\ ~RequestsOf(1)[1].ok
  /\ RequestsOf(1)[2].action = "createModel"
  /\ Known(models)
  /\ Len(RequestsOf(2)) = 2
  /\ RequestsOf(2)[2].action = "modelFieldNames" /\ ~RequestsOf(2)[2].ok

\* The operation numbered k is a call of ensure_makhfouz_model that listed the
\* names, found the note type absent and created it successfully
CreatedBy(k) ==
  /\ IsEnsure(k)
  /\ RequestsFor(k, "modelNames") # <<>>
  /\ RequestsFor(k, "modelNames")[1].ok
  /\ RequestsFor(k, "createModel") # <<>>
  /\ RequestsFor(k, "createModel")[1].ok

\* C28: on one client, after a call of ensure_makhfouz_model that found the
\* note type absent and created it successfully, a second call sees the note
\* type as existing: it issues no creation request and takes the update
\* branch, which starts with the field listing.
C28_SecondCallUpdates ==
  \A k \in 1..(Len(ops) - 1) :
    (CreatedBy(k) /\ IsEnsure(k + 1)) =>
      /\ "createModel" \notin ActionsOf(k + 1)
      /\ (k + 1 < Len(ops) \/ cpc = "idle") =>
           "modelFieldNames" \in ActionsOf(k + 1)

\* The desired fields absent from the field list fetched, in desired order
Absent(fetched) ==
  SelectSeq(MakhfouzFields, LAMBDA f : f \notin Range(fetched))

\* The running or last operation is a call of ensure_makhfouz_model that
\* fetched the field list of the note type
FieldsListed ==
  /\ ops # <<>>
  /\ IsEnsure(Len(ops))
  /\ RequestsFor(Len(ops), "modelFieldNames") # <<>>
  /\ RequestsFor(Len(ops), "modelFieldNames")[1].ok

\* The actions requested by the operation numbered k after the name listing,
\* in request order
ActionSeq(k) ==
  LET rs == SelectSeq(RequestsOf(k), LAMBDA r : r.action # "modelNames")
  IN [j \in 1..Len(rs) |-> rs[j].action]

\* One field add for each missing desired field, in the desired order,
\* whichever adds fail: while the call runs the adds requested are a prefix
\* of the missing fields, complete once the style update is reached; when it
\* has returned the fields still missing are those whose add failed
EveryMissingFieldAdded ==
  LET k == Len(ops)
      added == AddedBy(k)
      failed == {r.param : r \in {q \in Range(RequestsOf(k)) :
                                    q.action = "modelFieldAdd" /\ ~q.ok}}
  IN /\ cpc = "add" =>
          /\ Len(added) < Len(Absent(existing_fields))
          /\ added = SubSeq(Absent(existing_fields), 1, Len(added))
     /\ cpc \in {"style", "templates"} => added = Absent(existing_fields)
     /\ cpc = "idle" =>
          /\ added = SelectSeq(MakhfouzFields, LAMBDA f : f \in Range(added))
          /\ Range(MakhfouzFields) \ Range(remote_fields) = failed

\* C29 as stated: with the note type existing and its field list fetched,
\* one field add is attempted for each missing desired field, in the desired
\* order, whichever adds fail, and then both the style overwrite and the
\* template overwrite are attempted whatever the outcome of the adds and of
\* the style overwrite.
C29_StyleAndTemplateAlways ==
  FieldsListed =>
    /\ EveryMissingFieldAdded
    /\ cpc = "idle" =>
         ActionSeq(Len(ops)) =
           <<"modelFieldNames">>
             \o [j \in 1..Len(AddedBy(Len(ops))) |-> "modelFieldAdd"]
             \o <<"updateModelStyling", "updateModelTemplates">>

\* C29: with the note type existing and its field list fetched, one field
\* add is attempted for each missing desired field, in the desired order,
\* whichever adds fail; then the style overwrite is attempted whatever the
\* outcome of the adds, and the template overwrite is attempted if and only
\* if the style overwrite succeeded.
C29_TemplateAfterStyle ==
  FieldsListed =>
    /\ EveryMissingFieldAdded
    /\ cpc = "idle" =>
         LET k == Len(ops)
             styled == RequestsFor(k, "updateModelStyling")
         IN /\ Len(styled) = 1
            /\ ActionSeq(k) =
                 <<"modelFieldNames">>
                   \o [j \in 1..Len(AddedBy(k)) |-> "modelFieldAdd"]
                   \o <<"updateModelStyling">>
                   \o (IF styled[1].ok THEN <<"updateModelTemplates">> ELSE <<>>)

\* C29 witness: a call against a note type two fields short returned after
\* the first add failed, the second was still attempted and succeeded, and
\* the style and template updates were both requested.
C29_Witness ==
  /\ cpc = "idle"
  /\ Len(ops) = 1
  /\ FieldsListed
  /\ AddedBy(1) = <<"Date", "UID">>
  /\ ~RequestsFor(1, "modelFieldAdd")[1].ok
  /\ RequestsFor(1, "modelFieldAdd")[2].ok
  /\ ActionSeq(1) = <<"modelFieldNames", "modelFieldAdd", "modelFieldAdd",
                      "updateModelStyling", "updateModelTemplates">>

\* The book has the older shape: no annotations key
OldShape == DOMAIN data # {} /\ "annotations" \notin DOMAIN data

\* The highlight key holds pages that hold highlights that are dicts
SoundHighlights ==
  /\ "highlight" \in DOMAIN data
  /\ data["highlight"].kind = "map"
  /\ \A p \in 1..Len(data["highlight"].items) :
       LET on_page == data["highlight"].items[p].val
       IN /\ on_page.kind = "map"
          /\ \A h \in 1..Len(on_page.items) : on_page.items[h].val.kind = "dict"

\* The number of highlights on the pages
RECURSIVE CountHighlights(_)
CountHighlights(pages) ==
  IF Len(pages) = 0 THEN 0
  ELSE Len(pages[1].val.items) + CountHighlights(Tail(pages))

\* C30: the annotation normalizer never raises. For book data of either
\* shape, with a list, a string or a number where a dict is expected,
\* _extract_highlights returns a list; and in the older shape a bookmark
\* lookup that fails loses no record: every highlight of the book is in the
\* list (with an empty comment when no comment was found).
C30_NeverRaises ==
  xpc = "done" =>
    /\ extract_raised = ""
    /\ (OldShape /\ SoundHighlights) =>
         Len(extracted) = CountHighlights(data["highlight"].items)

====
